---- MODULE Spec2Model ----
(***************************************************************************)
(* Accessibility tree cache of mlx_use/mac/optimized_tree.py               *)
(* (AppTreeCache, _build_tree_cached, _flatten_tree_cached,                *)
(* OptimizedTreeManager) and the index lookup of examples/basic_agent.py.  *)
(*                                                                         *)
(* Concurrency: the callers are coroutines of one event loop.  A call runs *)
(* atomically up to its next await; the only awaits in the cache code are  *)
(* the builder traversals (builder.build_tree, builder._process_element).  *)
(* Strings that the code inspects character by character (search text,     *)
(* cache keys) are sequences of one-character strings.                     *)
(***************************************************************************)
EXTENDS Integers, Sequences, FiniteSets, TLC

\* ------------------------------------------------------------------ bounds
Pids == {1, 12}

Tasks == {1, 2}

StartTime == 100

\* how far the clock runs in the sequential specifications
MaxTicks == 6

\* how far the clock runs in the specification of overlapping calls
MaxOverlapTicks == 2

\* how far the clock runs in the specifications of reads, paths and two processes
MaxShortTicks == 2

\* how far the clock runs while the agent takes its steps
MaxAgentTicks == 4

\* how many buttons the widest element given to the converter holds
WideCount == 52

\* the deepest current_depth should_load_children is asked about
MaxLoadDepth == 4

\* the process and the task of the sequential specifications
SeqPids == {12}

SeqTasks == {1}

\* ------------------------------------------------------- program constants
CacheWindow == 5

DefaultMaxChildren == 50

DefaultMaxDepth == 4

LazyMaxDepth == 3

LazyMaxChildren == 25

ExpandMaxDepth == 8

\* _has_interactive_descendants(node, max_depth=2)
LookaheadDepth == 2

\* should_load_children: min(max_depth, 3) for structural containers
StructuralDepth == 3

\* should_load_children: current_depth < 2 for other elements
OtherDepth == 2

\* filtered_children[:50]
MaxFilteredChildren == 50

\* element.children[:20]
MaxAllChildren == 20

\* expand_element converts each child with max_depth 3
ExpandJsonDepth == 3

\* FolderCreationState.update: len(self.action_history) > 5
MaxHistory == 5

\* FolderCreationState.update: element_info[:50]
InfoLength == 50

\* _execute_automation_step: the last three actions and the last three clicks
LoopLength == 3

\* _try_axconfirm_on_text_field: text_field_index = 132
TextFieldIndex == 132

\* ----------------------------------------------------------- plain values
NoIndex == -1

NoDepth == -1

NoNode == [role |-> "<none>", path |-> "<none>"]

NoTree == [id |-> 0, root |-> NoNode]

\* the controller is not the folder-creation agent: no FolderCreationState
NoState == [last_action |-> "<none>"]

ExplicitDepths == {NoDepth, 10}

\* ------------------------------------------------------------------ text
UpperLetters == <<"A","B","C","D","E","F","G","H","I","J","K","L","M","N","O","P","Q","R","S","T","U","V","W","X","Y","Z">>

LowerLetters == <<"a","b","c","d","e","f","g","h","i","j","k","l","m","n","o","p","q","r","s","t","u","v","w","x","y","z">>

Punctuation == <<" ", ":", "(", ")">>

Alphabet == UpperLetters \o LowerLetters \o Punctuation

Chars == {Alphabet[i] : i \in 1..Len(Alphabet)}

\* str.lower(), one character
LowerTable ==
    [c \in Chars |->
        IF \E i \in 1..Len(UpperLetters) : UpperLetters[i] = c
        THEN LowerLetters[CHOOSE i \in 1..Len(UpperLetters) : UpperLetters[i] = c]
        ELSE c]

LowerChar(c) == LowerTable[c]

Lower(s) == [i \in 1..Len(s) |-> LowerChar(s[i])]

RECURSIVE LStrip(_)
LStrip(s) == IF s # <<>> /\ Head(s) = " " THEN LStrip(Tail(s)) ELSE s

RECURSIVE RStrip(_)
RStrip(s) == IF s # <<>> /\ s[Len(s)] = " " THEN RStrip(SubSeq(s, 1, Len(s) - 1)) ELSE s

Strip(s) == RStrip(LStrip(s))

Contains(hay, needle) ==
    \E i \in 0..(Len(hay) - Len(needle)) : SubSeq(hay, i + 1, i + Len(needle)) = needle

StartsWith(s, prefix) ==
    Len(prefix) <= Len(s) /\ SubSeq(s, 1, Len(prefix)) = prefix

RECURSIVE JoinSpace(_)
JoinSpace(parts) ==
    IF parts = <<>> THEN <<>>
    ELSE IF Len(parts) = 1 THEN parts[1]
    ELSE parts[1] \o <<" ">> \o JoinSpace(Tail(parts))

DigitChars == <<"0","1","2","3","4","5","6","7","8","9">>

RECURSIVE Digits(_)
Digits(n) == IF n < 10 THEN <<DigitChars[n + 1]>> ELSE Digits(n \div 10) \o <<DigitChars[(n % 10) + 1]>>

BoolText(b) == IF b THEN <<"T","r","u","e">> ELSE <<"F","a","l","s","e">>

RoleText(role) ==
    CASE role = "AXWindow" -> <<"A","X","W","i","n","d","o","w">>
      [] role = "AXButton" -> <<"A","X","B","u","t","t","o","n">>
      [] role = "AXStaticText" -> <<"A","X","S","t","a","t","i","c","T","e","x","t">>
      [] role = "AXTextField" -> <<"A","X","T","e","x","t","F","i","e","l","d">>
      [] role = "AXGroup" -> <<"A","X","G","r","o","u","p">>
      [] role = "AXTable" -> <<"A","X","T","a","b","l","e">>
      [] role = "AXRow" -> <<"A","X","R","o","w">>
      [] role = "AXCell" -> <<"A","X","C","e","l","l">>
      [] role = "AXList" -> <<"A","X","L","i","s","t">>
      [] role = "AXImage" -> <<"A","X","I","m","a","g","e">>
      [] OTHER -> <<"A","X">>

ActionText(a) ==
    CASE a = "AXPress" -> <<"A","X","P","r","e","s","s">>
      [] a = "AXConfirm" -> <<"A","X","C","o","n","f","i","r","m">>
      [] OTHER -> <<"A","X">>

\* ------------------------------------------------------------- UI layouts
\* MacElementNode: role, attributes, actions, is_interactive,
\* highlight_index, accessibility_path, children.
Node(role, path, hi, attrs, actions, children) ==
    [role |-> role, path |-> path, highlight_index |-> hi, attributes |-> attrs,
     actions |-> actions, is_interactive |-> (actions # <<>>), children |-> children]

TitleOk == [title |-> <<"o","k">>]

TitleOK == [title |-> <<"O","K">>]

DescAccept == [description |-> <<"A","c","c","e","p","t"," ","(","O","K",")">>]

TitleName == [title |-> <<"N","a","m","e">>]

\* the live hierarchies the target process can show
Layouts ==
    << Node("AXWindow", "/w", NoIndex, TitleName, <<>>,
            << Node("AXButton", "/w/ok", 0, TitleOk, <<"AXPress">>, <<>>),
               Node("AXStaticText", "/w/msg", NoIndex, DescAccept, <<>>, <<>>) >>),
       Node("AXWindow", "/w", NoIndex, TitleName, <<>>,
            << Node("AXTextField", "/w/name", 0, TitleName, <<"AXConfirm">>, <<>>),
               Node("AXGroup", "/w/g", NoIndex, [title |-> <<>>], <<>>,
                    << Node("AXButton", "/w/g/OK", 1, TitleOK, <<"AXPress">>, <<>>) >>) >>) >>

LayoutIds == 1..Len(Layouts)

TitleBlank == [title |-> <<" ">>]

NoAttrs == [title |-> <<>>]

Button(path, hi) == Node("AXButton", path, hi, TitleOK, <<"AXPress">>, <<>>)

Plain(role, path, children) == Node(role, path, NoIndex, NoAttrs, <<>>, children)

\* a dialog: a box of three buttons and a decorative text subtree; a table and
\* a list whose rows hold a button; plain elements with a button two and three
\* levels below them; a cell that can be pressed
FilterLayout ==
    Plain("AXWindow", "/a",
        << Plain("AXGroup", "/a/box",
               << Button("/a/box/b1", 0), Button("/a/box/b2", 1), Button("/a/box/b3", 2),
                  Plain("AXStaticText", "/a/box/deco",
                      << Plain("AXStaticText", "/a/box/deco/t", <<>>) >>) >>),
           Plain("AXTable", "/a/tbl",
               << Plain("AXRow", "/a/tbl/r", << Button("/a/tbl/r/b", 3) >>) >>),
           Plain("AXList", "/a/lst",
               << Plain("AXRow", "/a/lst/r", << Button("/a/lst/r/b", 4) >>) >>),
           Plain("AXImage", "/a/near",
               << Plain("AXImage", "/a/near/x", << Button("/a/near/x/b", 5) >>) >>),
           Plain("AXImage", "/a/deep",
               << Plain("AXImage", "/a/deep/x",
                      << Plain("AXImage", "/a/deep/x/y", << Button("/a/deep/x/y/b", 6) >>) >>) >>),
           Node("AXCell", "/a/cell", 7, NoAttrs, <<"AXPress">>, <<>>) >>)

\* two elements carry the accessibility path "/d/y"
DuplicatePathLayout ==
    Plain("AXWindow", "/d",
        << Plain("AXGroup", "/d/x", << Node("AXButton", "/d/y", 0, TitleOk, <<"AXPress">>, <<>>) >>),
           Node("AXButton", "/d/y", 1, TitleOK, <<"AXPress">>, <<>>) >>)

\* a button whose title is one blank, and a text whose title is empty
BlankTitleLayout ==
    Plain("AXWindow", "/s",
        << Node("AXButton", "/s/b", 0, TitleBlank, <<"AXPress">>, <<>>),
           Node("AXStaticText", "/s/t", NoIndex, NoAttrs, <<>>, <<>>) >>)

\* an element wider than both caps of the converter: a text, then buttons
WideLayout ==
    Plain("AXWindow", "/v",
        << Plain("AXStaticText", "/v/t", <<>>) >>
        \o [i \in 1..WideCount |-> Button("/v/b" \o ToString(i), i - 1)])

NewFolderText == <<"N","e","w"," ","F","o","l","d","e","r">>

\* the Notes window the agent starts on: the New Folder button and a Books button
NotesLayout ==
    Plain("AXWindow", "/n",
        << Node("AXButton", "/n/new", 0, [title |-> NewFolderText], <<"AXPress">>, <<>>),
           Node("AXButton", "/n/books", 1, [title |-> <<"B","o","o","k","s">>], <<"AXPress">>, <<>>) >>)

\* every hierarchy a target process can show; the first ones are Layouts
Hierarchies == Layouts \o <<FilterLayout, DuplicatePathLayout, BlankTitleLayout, NotesLayout>>

NotesLayoutId == Len(Hierarchies)

\* the hierarchies the Notes process shows to the agent: its window, and the
\* dialog with the name field and the OK button
AgentLayoutIds == {NotesLayoutId, 2}

\* the hierarchies the reading specifications start from: all but the Notes window
HierarchyIds == 1..(NotesLayoutId - 1)

FilterLayoutId == Len(Layouts) + 1

\* the paths looked up while the hierarchy changes
PathsLookedUp == {"/w/ok", "/w/g/OK"}

\* the paths looked up and expanded in the reading specification
ReadPaths == {"/w/ok", "/a/tbl", "/d/y", "/zz"}

\* get_tree_json(pid, max_depth)
JsonDepths == {0, 2, 5}

ReadQueries == { <<"O","K">>, <<" ","o","k"," ">>, <<"n"," ","A">> }

\* the element expanded in the specification of overlapping calls
OverlapPaths == {"/w"}

Queries == { <<" ","O","K">> }

Indices == {0, 1}

\* ---------------------------------------------------------------- state
VARIABLES
    now,            \* time.time()
    ui,             \* pid -> layout the live process shows (OS accessibility layer)
    trees,          \* cache.trees: pid -> snapshot object [id, root]
    last_updated,   \* cache.last_updated
    elements_flat,  \* cache.elements_flat
    search_cache,   \* cache.search_cache: key string -> matched element dicts
    builders,       \* cache.builders: pid -> builder object [obj, max_depth, max_children]
    lock,           \* cache.lock: the set of tasks holding it
    tasks,          \* the coroutines in flight: locals of each suspended call
    invalidated,    \* pids invalidated since their last build_tree call began
    handle,         \* the highlight index the controller last read, and its snapshot
    state,          \* the agent's FolderCreationState, when the controller is basic_agent.py
    performed,      \* the agent's latest successful actions, oldest first
    ev              \* the operation step just taken and the value it returned

vars == <<now, ui, trees, last_updated, elements_flat, search_cache, builders, lock,
          tasks, invalidated, handle, state, performed, ev>>

agent == <<state, performed>>

tables == <<trees, last_updated, elements_flat, search_cache, builders>>

\* -------------------------------------------------------- pure functions
\* optimized_tree.py _convert_element_to_info
ElementInfo(node, parent_path) ==
    [role |-> node.role, attributes |-> node.attributes,
     is_interactive |-> node.is_interactive, highlight_index |-> node.highlight_index,
     actions |-> node.actions, children_count |-> Len(node.children),
     path |-> node.path, parent_path |-> parent_path]

\* optimized_tree.py _flatten_tree_cached.collect_elements (pre-order)
RECURSIVE CollectElements(_, _)
RECURSIVE CollectChildren(_, _, _)
CollectElements(node, parent_path) ==
    <<ElementInfo(node, parent_path)>> \o CollectChildren(node.children, 1, node.path)

CollectChildren(children, i, parent_path) ==
    IF i > Len(children) THEN <<>>
    ELSE CollectElements(children[i], parent_path) \o CollectChildren(children, i + 1, parent_path)

\* optimized_tree.py _find_element_by_path
RECURSIVE FindElementByPath(_, _)
RECURSIVE FindInChildren(_, _, _)
\* variant: the children are searched from the last to the first
FindInChildrenLastFirst(children, i, target_path) ==
    IF i > Len(children) THEN NoNode
    ELSE LET result == FindElementByPath(children[Len(children) + 1 - i], target_path)
         IN  IF result # NoNode THEN result
             ELSE FindInChildren(children, i + 1, target_path)

FindElementByPath(node, target_path) ==
    IF node.path = target_path THEN node
    ELSE FindInChildren(node.children, 1, target_path)

FindInChildren(children, i, target_path) ==
    IF i > Len(children) THEN NoNode
    ELSE LET result == FindElementByPath(children[i], target_path)
         IN  IF result # NoNode THEN result
             ELSE FindInChildren(children, i + 1, target_path)

\* element.children = expanded_element.children, for the node at target_path
\* (the node _find_element_by_path returns: the first one in pre-order)
RECURSIVE SetChildren(_, _, _)
RECURSIVE SetInChildren(_, _, _, _)
SetChildren(node, target_path, new_children) ==
    IF node.path = target_path THEN [node EXCEPT !.children = new_children]
    ELSE [node EXCEPT !.children = SetInChildren(node.children, 1, target_path, new_children)]

SetInChildren(children, i, target_path, new_children) ==
    IF i > Len(children) THEN children
    ELSE IF FindElementByPath(children[i], target_path) # NoNode
    THEN [children EXCEPT ![i] = SetChildren(children[i], target_path, new_children)]
    ELSE SetInChildren(children, i + 1, target_path, new_children)

\* optimized_tree.py EXCLUDE_ROLES, CONTAINER_ROLES
EXCLUDE_ROLES == {"AXRow", "AXCell", "AXTable", "AXColumn", "AXColumnHeader"}

CONTAINER_ROLES == {"AXWindow", "AXGroup", "AXScrollArea", "AXSplitGroup", "AXTabGroup",
                    "AXToolbar", "AXPopUpButton", "AXMenuBar", "AXOutline"}

\* ------------------------------------------------------ attribute values
\* A Python attribute value: None, a str, an int, a bool, a list, a tuple, a
\* dict with string keys, or an object of another type (an accessibility
\* reference) that json.dumps rejects.
NoneValue == [t |-> "none"]

StrValue(v) == [t |-> "str", v |-> v]

IntValue(v) == [t |-> "int", v |-> v]

BoolValue(v) == [t |-> "bool", v |-> v]

ListValue(items) == [t |-> "list", items |-> items]

TupleValue(items) == [t |-> "tuple", items |-> items]

DictValue(items) == [t |-> "dict", items |-> items]

ObjectValue(name) == [t |-> "obj", name |-> name]

ScalarTypes == {"none", "str", "int", "bool"}

\* json.dumps(value) succeeds
RECURSIVE Serializable(_)
Serializable(value) ==
    IF value.t \in ScalarTypes THEN TRUE
    ELSE IF value.t \in {"list", "tuple"}
         THEN \A i \in 1..Len(value.items) : Serializable(value.items[i])
    ELSE IF value.t = "dict"
         THEN \A k \in DOMAIN value.items : Serializable(value.items[k])
    ELSE FALSE

\* str(value) of an object of another type
StrOfObject(value) == StrValue("<" \o value.name \o ">")

\* variant: the items of a list, tuple or dict are left as they are
SanitizeValueShallow(value) ==
    IF value.t \in ScalarTypes THEN value
    ELSE IF value.t \in {"list", "tuple"} THEN ListValue(value.items)
    ELSE IF value.t = "dict" THEN value
    ELSE StrOfObject(value)

\* optimized_tree.py _sanitize_value
RECURSIVE SanitizeValue(_)
SanitizeValue(value) ==
    IF value.t \in ScalarTypes THEN value
    ELSE IF value.t \in {"list", "tuple"}
         THEN ListValue([i \in 1..Len(value.items) |-> SanitizeValue(value.items[i])])
    ELSE IF value.t = "dict"
         THEN DictValue([k \in DOMAIN value.items |-> SanitizeValue(value.items[k])])
    ELSE StrOfObject(value)

\* optimized_tree.py _sanitize_attributes
SanitizeAttributes(attributes) ==
    [key \in DOMAIN attributes |->
        IF Serializable(attributes[key]) THEN attributes[key]
        ELSE SanitizeValue(attributes[key])]

\* ui_explorer/server.py _sanitize_attributes
ServerSanitizeAttributes(attributes) ==
    [key \in DOMAIN attributes |->
        IF Serializable(attributes[key]) THEN attributes[key]
        ELSE IF attributes[key].t = "list" THEN StrValue("[...]")
        ELSE IF attributes[key].t = "tuple" THEN StrValue("(...)")
        ELSE IF attributes[key].t = "dict" THEN StrValue("{...}")
        ELSE StrOfObject(attributes[key])]

\* the attribute values handed to the sanitizers
AttributeValues ==
    LET ref == ObjectValue("AXValueRef")
    IN  { NoneValue, StrValue("ok"), IntValue(7), BoolValue(TRUE), ref,
          ListValue(<<IntValue(1), StrValue("a")>>),
          ListValue(<<IntValue(1), ref>>),
          TupleValue(<<IntValue(1), IntValue(2)>>),
          TupleValue(<<ref, StrValue("a")>>),
          DictValue([x |-> IntValue(1), y |-> ref]),
          ListValue(<<ListValue(<<ref>>), DictValue([x |-> BoolValue(FALSE)])>>) }

\* the attribute maps handed to the sanitizers
AttributeMaps == [{"title", "value"} -> AttributeValues] \cup [{"title"} -> AttributeValues]

\* should_load_children: the two role lists
StructuralRoles == {"AXWindow", "AXGroup", "AXScrollArea", "AXSplitGroup", "AXTabGroup", "AXToolbar"}

DisplayRoles == {"AXRow", "AXCell", "AXTable", "AXStaticText"}

Min(a, b) == IF a < b THEN a ELSE b

\* variant: structural containers get the whole depth budget
ShouldLoadChildrenUncapped(element, current_depth, max_depth) ==
    IF element.is_interactive THEN current_depth < max_depth
    ELSE IF element.role \in StructuralRoles THEN current_depth < max_depth
    ELSE IF element.role \in DisplayRoles THEN FALSE
    ELSE current_depth < OtherDepth

\* AppTreeCache.should_load_children
ShouldLoadChildren(element, current_depth, max_depth) ==
    IF element.is_interactive THEN current_depth < max_depth
    ELSE IF element.role \in StructuralRoles THEN current_depth < Min(max_depth, StructuralDepth)
    ELSE IF element.role \in DisplayRoles THEN FALSE
    ELSE current_depth < OtherDepth

Take(seq, n) == SubSeq(seq, 1, IF Len(seq) < n THEN Len(seq) ELSE n)

\* optimized_tree.py _has_interactive_descendants
RECURSIVE HasInteractiveDescendants(_, _, _)
HasInteractiveDescendants(node, max_depth, current_depth) ==
    IF current_depth >= max_depth THEN FALSE
    ELSE \E i \in 1..Len(node.children) :
            LET grandchild == node.children[i]
            IN  /\ ~(grandchild.role \in EXCLUDE_ROLES /\ ~grandchild.is_interactive)
                /\ \/ grandchild.is_interactive
                   \/ /\ grandchild.children # <<>>
                      /\ HasInteractiveDescendants(grandchild, max_depth, current_depth + 1)

\* variant: descendants are not looked at
ShouldIncludeChildNoLookahead(child) ==
    IF child.role \in EXCLUDE_ROLES /\ ~child.is_interactive THEN FALSE
    ELSE child.is_interactive \/ child.role \in CONTAINER_ROLES

\* optimized_tree.py _should_include_child
ShouldIncludeChild(child) ==
    IF child.role \in EXCLUDE_ROLES /\ ~child.is_interactive THEN FALSE
    ELSE IF child.is_interactive THEN TRUE
    ELSE IF child.role \in CONTAINER_ROLES THEN TRUE
    ELSE child.children # <<>> /\ HasInteractiveDescendants(child, LookaheadDepth, 0)

\* variant: the filtered list is not sliced
FilterChildrenUncapped(children) == SelectSeq(children, ShouldIncludeChild)

\* optimized_tree.py _filter_children_for_interactive
FilterChildrenForInteractive(children) ==
    Take(SelectSeq(children, ShouldIncludeChild), MaxFilteredChildren)

\* optimized_tree.py _convert_tree_to_json_incremental
RECURSIVE ConvertTreeToJsonIncremental(_, _, _, _, _)
ConvertTreeToJsonIncremental(element, max_depth, current_depth, parent_path, interactive_only) ==
    LET is_expanded == current_depth < max_depth
        shown == IF ~(is_expanded /\ element.children # <<>>) THEN <<>>
                 ELSE IF interactive_only THEN FilterChildrenForInteractive(element.children)
                 ELSE Take(element.children, MaxAllChildren)
    IN  [element |-> ElementInfo(element, parent_path),
         children |-> [i \in 1..Len(shown) |->
                          ConvertTreeToJsonIncremental(shown[i], max_depth, current_depth + 1,
                                                       element.path, interactive_only)],
         is_expanded |-> is_expanded]

\* variant: the query is trimmed but never lower-cased
NormalizeSearchQueryKeepsCase(query, case_sensitive) == Strip(query)

\* optimized_tree.py _normalize_search_query
NormalizeSearchQuery(query, case_sensitive) ==
    IF case_sensitive THEN Strip(query) ELSE Lower(Strip(query))

AttrKeys == <<"title", "value", "description", "label", "placeholder">>

AttrParts(attrs) ==
    LET present(k) == k \in DOMAIN attrs /\ attrs[k] # <<>> /\ Strip(attrs[k]) # <<>>
        keep == SelectSeq(AttrKeys, present)
    IN  [i \in 1..Len(keep) |-> attrs[keep[i]]]

\* optimized_tree.py _extract_searchable_text
ExtractSearchableText(element, case_sensitive) ==
    LET parts == <<RoleText(element.role)>> \o AttrParts(element.attributes)
                 \o [i \in 1..Len(element.actions) |-> ActionText(element.actions[i])]
        text == JoinSpace(parts)
    IN  IF case_sensitive THEN text ELSE Lower(text)

\* variant: the loop stops at the first match
MatchingElementsFirstOnly(elements, normalized_query, case_sensitive) ==
    LET hit(element) == Contains(ExtractSearchableText(element, case_sensitive), normalized_query)
    IN  Take(SelectSeq(elements, hit), 1)

\* optimized_tree.py search_elements: the matching loop
MatchingElements(elements, normalized_query, case_sensitive) ==
    LET hit(element) == Contains(ExtractSearchableText(element, case_sensitive), normalized_query)
    IN  SelectSeq(elements, hit)

\* hashlib.md5(...).hexdigest(): an injective code over the inputs in use,
\* written in hexadecimal digits (no ":" occurs in it)
HexChars == <<"0","1","2","3","4","5","6","7","8","9","a","b","c","d","e","f">>

HexTable ==
    [c \in Chars |->
        LET n == CHOOSE i \in 1..Len(Alphabet) : Alphabet[i] = c
        IN  <<HexChars[(n \div 16) + 1], HexChars[(n % 16) + 1]>>]

HexOfChar(c) == HexTable[c]

RECURSIVE Md5Hex(_)
Md5Hex(s) == IF s = <<>> THEN <<>> ELSE HexOfChar(Head(s)) \o Md5Hex(Tail(s))

\* optimized_tree.py _get_cached_search_key
GetCachedSearchKey(pid, query, case_sensitive) ==
    Digits(pid) \o <<":">> \o Md5Hex(query \o <<":">> \o BoolText(case_sensitive))

\* variant: the prefix is the pid without the colon
PidPrefixBare(pid) == Digits(pid)

\* the f"{pid}:" prefix that AppTreeCache.invalidate removes keys by
PidPrefix(pid) == Digits(pid) \o <<":">>

\* -------------------------------------------------- FolderCreationState
\* basic_agent.py FOLDER_NAME
FolderName == <<"O","f","i","r"," ","f","o","l","d","e","r">>

\* the texts the language model asks to type
TypedTexts == { FolderName, <<"N","o","t","e","s">> }

\* the agent's coroutine
AgentTask == CHOOSE t \in SeqTasks : TRUE

\* the Notes process
AgentPid == CHOOSE pid \in SeqPids : TRUE

\* FolderCreationState.__init__
NewState ==
    [new_folder_clicked |-> FALSE, folder_name_entered |-> FALSE, ok_clicked |-> FALSE,
     last_action |-> "None", action_history |-> <<>>, last_clicked_indices |-> <<>>]

\* the action name as text
NameText(action_name) ==
    IF action_name = "click" THEN <<"c","l","i","c","k">> ELSE <<"t","y","p","e">>

\* str(element) of a MacElementNode: its role and its texts
ElementString(element) == JoinSpace(<<RoleText(element.role)>> \o AttrParts(element.attributes))

\* process_action: f'typed "{text_to_type}" into {element.role}'
TypedInfo(text, element) ==
    <<"t","y","p","e","d"," ","\"">> \o text \o <<"\""," ","i","n","t","o"," ">> \o RoleText(element.role)

\* a list that keeps its last MaxHistory items
KeepLast(seq) == IF Len(seq) > MaxHistory THEN Tail(seq) ELSE seq

\* variant: the history is never shortened
KeepAll(seq) == seq

\* FolderCreationState.update: append, then pop(0) while longer than MaxHistory
Capped(seq) == KeepLast(seq)

\* FolderCreationState.update(action_name, success, element_info, clicked_index)
Update(st, action_name, success, element_info, clicked_index) ==
    IF st = NoState \/ ~success THEN st
    ELSE LET entry == NameText(action_name) \o <<":">> \o Take(element_info, InfoLength)
             base == [st EXCEPT
                        !.action_history = Capped(Append(@, entry)),
                        !.last_clicked_indices =
                            IF action_name = "click" /\ clicked_index # NoIndex
                            THEN Capped(Append(@, clicked_index)) ELSE @]
         IN  IF action_name = "click" /\ Contains(element_info, NewFolderText)
             THEN [base EXCEPT !.new_folder_clicked = TRUE, !.last_action = "clicked_new_folder"]
             ELSE IF action_name = "type" /\ st.new_folder_clicked /\ Contains(element_info, FolderName)
             THEN [base EXCEPT !.folder_name_entered = TRUE, !.last_action = "entered_folder_name"]
             ELSE IF /\ action_name = "click"
                     /\ st.folder_name_entered
                     /\ \/ Contains(element_info, <<"O","K">>)
                        \/ Contains(Lower(element_info), <<"b","u","t","t","o","n">>)
             THEN [base EXCEPT !.ok_clicked = TRUE, !.last_action = "clicked_ok"]
             ELSE base

\* process_action: the state after the calls of one click or type action on
\* the element the index resolved to (NoNode: the index was not found)
StateAfterAction(st, action_name, text, element, index, success) ==
    IF element = NoNode THEN Update(st, action_name, FALSE, <<>>, NoIndex)
    ELSE LET info == IF action_name = "click" THEN ElementString(element) ELSE TypedInfo(text, element)
             s1 == Update(st, action_name, success, info, IF action_name = "click" THEN index ELSE NoIndex)
             s2 == IF /\ st # NoState /\ action_name = "click" /\ success
                      /\ Contains(Lower(ElementString(element)), <<"o","k">>)
                   THEN [s1 EXCEPT !.ok_clicked = TRUE] ELSE s1
         IN  Update(s2, action_name, success, <<>>, NoIndex)

\* the successful actions of the agent, the latest LoopLength of them
Performed(done, st, action_name, text, success) ==
    IF st = NoState \/ ~success THEN done
    ELSE LET all == Append(done, [action |-> action_name, text |-> text])
         IN  IF Len(all) > LoopLength THEN Tail(all) ELSE all

\* _execute_automation_step: the typing-loop test on action_history
TypingLoopDetected(st) ==
    /\ Len(st.action_history) >= LoopLength
    /\ \A i \in (Len(st.action_history) - LoopLength + 1)..Len(st.action_history) :
          /\ Contains(st.action_history[i], <<"t","y","p","e",":">>)
          /\ Contains(st.action_history[i], FolderName)

\* ------------------------------------------------------------- dictionaries
Put(f, k, v) == [x \in (DOMAIN f) \cup {k} |-> IF x = k THEN v ELSE f[x]]

\* variant: the entry is left in place
DropNothing(f, k) == f

Drop(f, k) == [x \in (DOMAIN f) \ {k} |-> f[x]]

\* ------------------------------------------------------------ object identity
\* A built tree and a MacUITreeBuilder are objects: two of them are the same
\* object only if they carry the same id.  Ids no longer referenced are reused.
ObjectIds == 1..(Cardinality(Pids) + Cardinality(Tasks) + 1)

UsedTreeIds ==
    {trees[pid].id : pid \in DOMAIN trees} \cup {tasks[t].tid : t \in Tasks} \cup {handle.id}

FreshTreeId == CHOOSE i \in ObjectIds \ UsedTreeIds : \A j \in ObjectIds \ UsedTreeIds : i <= j

UsedBuilderIds ==
    {builders[pid].obj : pid \in DOMAIN builders} \cup {tasks[t].bld : t \in Tasks}

FreshBuilderId == CHOOSE i \in ObjectIds \ UsedBuilderIds : \A j \in ObjectIds \ UsedBuilderIds : i <= j

\* ------------------------------------------------------------- call frames
IdleTask ==
    [pc |-> "idle", op |-> "none", pid |-> 0, force |-> FALSE, current_time |-> 0,
     bld |-> 0, orig_depth |-> 0, orig_children |-> 0, before |-> 0,
     q |-> <<>>, cs |-> FALSE, tid |-> 0, path |-> "", element |-> NoNode]

InFlight(pid) == {t \in Tasks : tasks[t].pc # "idle" /\ tasks[t].pid = pid}

NoHandle == [pid |-> 0, idx |-> NoIndex, id |-> 0]

Event(kind, task, pid, force, build, before, inval, val) ==
    [kind |-> kind, task |-> task, pid |-> pid, force |-> force, build |-> build,
     before |-> before, inval |-> inval, val |-> val]

\* (_create_search_result: the elements and their count)
SearchVal(q, cs, elements) ==
    [q |-> q, cs |-> cs, elements |-> elements, total_count |-> Len(elements)]

\* find_element_by_path: the path asked for, the node returned and the
\* snapshot object it belongs to
FindVal(path, node, snap) == [path |-> path, node |-> node, snap |-> snap]

NoJson == [element |-> NoNode, children |-> <<>>, is_expanded |-> FALSE]

\* get_tree_json: the arguments and the dictionary returned
JsonVal(max_depth, interactive_only, out) ==
    [max_depth |-> max_depth, interactive_only |-> interactive_only, out |-> out]

\* ----------------------------------------------------- AppTreeCache pieces
\* AppTreeCache.get_builder: the builders table after the call
GetBuilder(pid) ==
    IF pid \in DOMAIN builders THEN builders
    ELSE Put(builders, pid, [obj |-> FreshBuilderId, max_depth |-> DefaultMaxDepth,
                             max_children |-> DefaultMaxChildren])

\* variant: the builder stays registered
CleanupBuilderKeeps(bs, pid) == bs

\* AppTreeCache.cleanup_builder
CleanupBuilder(bs, pid) == Drop(bs, pid)

\* AppTreeCache.invalidate: the search-cache entries that survive
InvalidateSearchCache(sc, pid) ==
    [k \in {k \in DOMAIN sc : ~StartsWith(k, PidPrefix(pid))} |-> sc[k]]

\* _build_tree_cached: cache.last_updated.get(pid, 0)
LastUpdate(pid) == IF pid \in DOMAIN last_updated THEN last_updated[pid] ELSE 0

\* variant: a snapshot aged exactly the window still counts as recent
UseCachedTreeOffByOne(pid, force_refresh, current_time) ==
    /\ ~force_refresh
    /\ pid \in DOMAIN trees
    /\ current_time - LastUpdate(pid) <= CacheWindow

\* _build_tree_cached: the cached-version test
UseCachedTree(pid, force_refresh, current_time) ==
    /\ ~force_refresh
    /\ pid \in DOMAIN trees
    /\ current_time - LastUpdate(pid) < CacheWindow

\* _build_tree_cached: the settings applied before the traversal
ApplySettings(b, lazy_mode, max_depth) ==
    IF max_depth # NoDepth THEN [b EXCEPT !.max_depth = max_depth]
    ELSE IF lazy_mode THEN [b EXCEPT !.max_depth = LazyMaxDepth, !.max_children = LazyMaxChildren]
    ELSE b

\* variant: the traversal is awaited inside `with cache.lock`
LockHeldAcrossBuildByCaller(p) == {p}

\* _build_tree_cached: the task that holds cache.lock across `await builder.build_tree`
LockHeldAcrossBuild(p) == {}

\* variant: the swap keeps the timestamp of the snapshot it replaces
SwapTimestampKeepsOld(t) ==
    IF t.pid \in DOMAIN last_updated THEN last_updated[t.pid] ELSE t.current_time

\* _build_tree_cached: the timestamp the locked swap stores
SwapTimestamp(t) == t.current_time

\* _build_tree_cached: what the locked swap leaves in cache.search_cache
SearchCacheAfterSwap(pid) == search_cache

\* variant: the finally block restores max_depth only
RestoreSettingsDepthOnly(bs, t) ==
    IF t.pid \in DOMAIN bs /\ bs[t.pid].obj = t.bld
    THEN [bs EXCEPT ![t.pid].max_depth = t.orig_depth]
    ELSE bs

\* _build_tree_cached: the finally block, on the builder object the call holds
RestoreSettings(bs, t) ==
    IF t.pid \in DOMAIN bs /\ bs[t.pid].obj = t.bld
    THEN [bs EXCEPT ![t.pid].max_depth = t.orig_depth, ![t.pid].max_children = t.orig_children]
    ELSE bs

\* _expand_element_with_builder: the finally block
RestoreDepth(bs, t) ==
    IF t.pid \in DOMAIN bs /\ bs[t.pid].obj = t.bld
    THEN [bs EXCEPT ![t.pid].max_depth = t.orig_depth]
    ELSE bs

\* _flatten_tree_cached: the list returned, for given trees / elements_flat tables
FlattenResult(tr, fl, pid) ==
    IF pid \in DOMAIN fl THEN fl[pid]
    ELSE IF pid \notin DOMAIN tr THEN <<>>
    ELSE CollectElements(tr[pid].root, NoNode.path)

\* _flatten_tree_cached: elements_flat after the call
FlattenMemo(tr, fl, pid) ==
    IF pid \in DOMAIN fl \/ pid \notin DOMAIN tr THEN fl
    ELSE Put(fl, pid, CollectElements(tr[pid].root, NoNode.path))

\* MacUITreeBuilder.build_tree: the tree a successful traversal returns
BuiltTree(pid) == [id |-> FreshTreeId, root |-> Hierarchies[ui[pid]]]

\* ------------------------------------------------------------------ Init
Init ==
    /\ now = StartTime
    /\ ui = [pid \in Pids |-> 1]
    /\ trees = <<>>
    /\ last_updated = <<>>
    /\ elements_flat = <<>>
    /\ search_cache = <<>>
    /\ builders = <<>>
    /\ lock = {}
    /\ tasks = [t \in Tasks |-> IdleTask]
    /\ invalidated = {}
    /\ handle = NoHandle
    /\ state = NoState
    /\ performed = <<>>
    /\ ev = Event("init", 0, 0, FALSE, "none", 0, FALSE, NoTree)

\* the cache is empty and the target processes show hierarchy h
InitShowing(h) ==
    /\ now = StartTime
    /\ ui = [pid \in Pids |-> h]
    /\ trees = <<>>
    /\ last_updated = <<>>
    /\ elements_flat = <<>>
    /\ search_cache = <<>>
    /\ builders = <<>>
    /\ lock = {}
    /\ tasks = [t \in Tasks |-> IdleTask]
    /\ invalidated = {}
    /\ handle = NoHandle
    /\ state = NoState
    /\ performed = <<>>
    /\ ev = Event("init", 0, 0, FALSE, "none", 0, FALSE, NoTree)

InitRead == \E h \in HierarchyIds : InitShowing(h)

\* --------------------------------------------------------- environment
\* the clock advances
TickWithin(ticks) ==
    /\ now < StartTime + ticks
    /\ now' = now + 1
    /\ ev' = Event("tick", 0, 0, FALSE, "none", 0, FALSE, NoTree)
    /\ UNCHANGED <<agent, ui, tables, lock, tasks, invalidated, handle>>

Tick == TickWithin(MaxTicks)

OverlapTick == TickWithin(MaxOverlapTicks)

ShortTick == TickWithin(MaxShortTicks)

AgentTick == TickWithin(MaxAgentTicks)

\* the target process changes what it shows
UIChange(pid, layout) ==
    /\ ui[pid] # layout
    /\ ui' = [ui EXCEPT ![pid] = layout]
    /\ ev' = Event("ui", 0, pid, FALSE, "none", 0, FALSE, NoTree)
    /\ UNCHANGED <<agent, now, tables, lock, tasks, invalidated, handle>>

\* ------------------------------------------------- _build_tree_cached
\* the frame of a call suspended at `await builder.build_tree(pid)`
BuildFrame(op, pid, force, lazy_mode, max_depth, q, cs) ==
    LET b == GetBuilder(pid)[pid]
    IN  [IdleTask EXCEPT !.pc = "await_build", !.op = op, !.pid = pid, !.force = force,
                         !.current_time = now, !.bld = b.obj,
                         !.orig_depth = b.max_depth, !.orig_children = b.max_children,
                         !.before = LastUpdate(pid), !.q = q, !.cs = cs]

\* builders after get_builder and the settings of this call
BuildersForCall(pid, lazy_mode, max_depth) ==
    LET bs == GetBuilder(pid)
    IN  [bs EXCEPT ![pid] = ApplySettings(bs[pid], lazy_mode, max_depth)]

\* search_elements after its build_tree call, on the tables tr / fl
FinishSearch(tr, fl, sc, pid, q, cs) ==
    LET elements == FlattenResult(tr, fl, pid)
        matching == MatchingElements(elements, q, cs)
    IN  [flat |-> FlattenMemo(tr, fl, pid),
         cache |-> Put(sc, GetCachedSearchKey(pid, q, cs), matching),
         matching |-> matching]

\* build_tree(pid, force_refresh, lazy_mode, max_depth): the arguments that set the limits
BuildArgs(lazy_mode, max_depth) == [lazy_mode |-> lazy_mode, max_depth |-> max_depth]

\* OptimizedTreeManager.build_tree up to its return or its await
BuildTree(p, pid, force, lazy_mode, max_depth) ==
    /\ tasks[p].pc = "idle"
    /\ IF UseCachedTree(pid, force, now)
       THEN /\ ev' = Event("build", p, pid, force, "hit", LastUpdate(pid), pid \in invalidated, trees[pid])
            /\ UNCHANGED <<tables, lock, tasks>>
       ELSE /\ builders' = BuildersForCall(pid, lazy_mode, max_depth)
            /\ tasks' = [tasks EXCEPT ![p] = BuildFrame("build", pid, force, lazy_mode, max_depth, <<>>, FALSE)]
            /\ lock' = lock \cup LockHeldAcrossBuild(p)
            /\ ev' = Event("build", p, pid, force, "invoke", LastUpdate(pid), pid \in invalidated,
                           BuildArgs(lazy_mode, max_depth))
            /\ UNCHANGED <<trees, last_updated, elements_flat, search_cache>>
    /\ invalidated' = invalidated \ {pid}
    /\ UNCHANGED <<agent, now, ui, handle>>

\* variant: memoized results are never used
SearchCacheHitNever(key) == FALSE

\* search_elements: the memoized-result test
SearchCacheHit(key) == key \in DOMAIN search_cache

\* OptimizedTreeManager.search_elements up to its return or its await
SearchElements(p, pid, query, cs) ==
    LET q == NormalizeSearchQuery(query, cs)
        key == GetCachedSearchKey(pid, q, cs)
    IN  /\ tasks[p].pc = "idle"
        /\ IF SearchCacheHit(key)
           THEN /\ ev' = Event("search", p, pid, FALSE, "memo", LastUpdate(pid), pid \in invalidated,
                               SearchVal(q, cs, search_cache[key]))
                /\ UNCHANGED <<tables, lock, tasks, invalidated>>
           ELSE /\ invalidated' = invalidated \ {pid}
                /\ IF UseCachedTree(pid, FALSE, now)
                   THEN LET r == FinishSearch(trees, elements_flat, search_cache, pid, q, cs)
                        IN  /\ lock = {}
                            /\ elements_flat' = r.flat
                            /\ search_cache' = r.cache
                            /\ ev' = Event("search", p, pid, FALSE, "hit", LastUpdate(pid),
                                           pid \in invalidated, SearchVal(q, cs, r.matching))
                            /\ UNCHANGED <<trees, last_updated, builders, lock, tasks>>
                   ELSE /\ builders' = BuildersForCall(pid, TRUE, NoDepth)
                        /\ tasks' = [tasks EXCEPT ![p] = BuildFrame("search", pid, FALSE, TRUE, NoDepth, q, cs)]
                        /\ lock' = lock \cup LockHeldAcrossBuild(p)
                        /\ ev' = Event("search", p, pid, FALSE, "invoke", LastUpdate(pid),
                                       pid \in invalidated, SearchVal(q, cs, <<>>))
                        /\ UNCHANGED <<trees, last_updated, elements_flat, search_cache>>
        /\ UNCHANGED <<agent, now, ui, handle>>

\* variant: the swap leaves the memoized flattening in place
FlatAfterSwapKept(fl, pid) == fl

\* _build_tree_cached: cache.elements_flat.pop(pid, None) in the locked swap
FlatAfterSwap(fl, pid) == Drop(fl, pid)

\* variant: whatever the builder gave is stored
TreeStoredAlways(outcome) == TRUE

\* _build_tree_cached: `if tree:` guards the swap; a raise skips it
TreeStored(outcome) == outcome = "tree"

\* `await builder.build_tree(pid)` ends (the traversal took time), then the
\* rest of _build_tree_cached and, for a search, of search_elements
BuilderReturns(p, outcome) ==
    LET t == tasks[p]
        pid == t.pid
        tree == BuiltTree(pid)
        tr == IF TreeStored(outcome) THEN Put(trees, pid, tree) ELSE trees
        fl == IF TreeStored(outcome) THEN FlatAfterSwap(elements_flat, pid) ELSE elements_flat
        sc == IF TreeStored(outcome) THEN SearchCacheAfterSwap(pid) ELSE search_cache
        r == FinishSearch(tr, fl, sc, pid, t.q, t.cs)
    IN  /\ t.pc = "await_build"
        /\ now > t.current_time
        /\ lock \ {p} = {}
        /\ trees' = tr
        /\ last_updated' = IF TreeStored(outcome) THEN Put(last_updated, pid, SwapTimestamp(t)) ELSE last_updated
        /\ builders' = RestoreSettings(builders, t)
        /\ IF t.op = "search"
           THEN /\ elements_flat' = r.flat
                /\ search_cache' = r.cache
                /\ ev' = Event("search", p, pid, FALSE, outcome, t.before, FALSE, SearchVal(t.q, t.cs, r.matching))
           ELSE /\ elements_flat' = fl
                /\ search_cache' = sc
                /\ ev' = Event("build", p, pid, t.force, outcome, t.before, FALSE,
                               IF outcome = "tree" THEN tree ELSE NoTree)
        /\ lock' = lock \ {p}
        /\ tasks' = [tasks EXCEPT ![p] = IdleTask]
        /\ UNCHANGED <<agent, now, ui, invalidated, handle>>

\* --------------------------------------------------------- expand_element
\* OptimizedTreeManager.expand_element up to its return or its await
ExpandElement(p, pid, element_path) ==
    /\ tasks[p].pc = "idle"
    /\ IF pid \notin DOMAIN trees \/ FindElementByPath(trees[pid].root, element_path) = NoNode
       THEN /\ ev' = Event("expand", p, pid, FALSE, "miss", 0, FALSE, NoTree)
            /\ UNCHANGED <<tables, tasks>>
       ELSE LET bs == GetBuilder(pid)
            IN  /\ builders' = [bs EXCEPT ![pid].max_depth = ExpandMaxDepth]
                /\ tasks' = [tasks EXCEPT ![p] =
                       [IdleTask EXCEPT !.pc = "await_expand", !.op = "expand", !.pid = pid,
                                        !.current_time = now, !.bld = bs[pid].obj,
                                        !.orig_depth = bs[pid].max_depth,
                                        !.orig_children = bs[pid].max_children,
                                        !.tid = trees[pid].id, !.path = element_path,
                                        !.element = FindElementByPath(trees[pid].root, element_path)]]
                /\ ev' = Event("expand", p, pid, FALSE, "invoke", 0, FALSE, NoTree)
                /\ UNCHANGED <<trees, last_updated, elements_flat, search_cache>>
    /\ UNCHANGED <<agent, now, ui, lock, invalidated, handle>>

\* MacUITreeBuilder._process_element: the children a successful traversal of
\* the element finds in the live hierarchy
ProcessElement(pid, element_path) == FindElementByPath(Hierarchies[ui[pid]], element_path)

\* expand_element: the dictionary returned for the patched element
ExpandResult(element) ==
    [element |-> ElementInfo(element, NoNode.path),
     children |-> [i \in 1..Len(element.children) |->
                      ConvertTreeToJsonIncremental(element.children[i], ExpandJsonDepth, 0,
                                                   NoNode.path, TRUE)],
     expanded |-> TRUE]

\* `await builder._process_element(...)` ends, then the rest of expand_element
ExpandReturns(p, outcome) ==
    LET t == tasks[p]
        pid == t.pid
        expanded == ProcessElement(pid, t.path)
        patch == outcome = "node" /\ pid \in DOMAIN trees /\ trees[pid].id = t.tid
    IN  /\ t.pc = "await_expand"
        /\ outcome = "node" => expanded # NoNode
        /\ trees' = IF patch
                    THEN [trees EXCEPT ![pid].root = SetChildren(trees[pid].root, t.path, expanded.children)]
                    ELSE trees
        /\ builders' = RestoreDepth(builders, t)
        /\ ev' = Event("expand", p, pid, FALSE, outcome, 0, FALSE,
                       IF outcome = "node"
                       THEN ExpandResult([t.element EXCEPT !.children = expanded.children])
                       ELSE NoJson)
        /\ tasks' = [tasks EXCEPT ![p] = IdleTask]
        /\ UNCHANGED <<agent, now, ui, last_updated, elements_flat, search_cache, lock, invalidated, handle>>

\* ------------------------------------------------ invalidate and cleanup
\* variant: invalidate leaves the timestamp in place
TimestampsAfterInvalidateKept(lu, pid) == lu

\* AppTreeCache.invalidate: self.last_updated.pop(pid, None)
TimestampsAfterInvalidate(lu, pid) == Drop(lu, pid)

\* OptimizedTreeManager.invalidate_cache
InvalidateCache(pid) ==
    /\ lock = {}
    /\ trees' = Drop(trees, pid)
    /\ elements_flat' = Drop(elements_flat, pid)
    /\ last_updated' = TimestampsAfterInvalidate(last_updated, pid)
    /\ search_cache' = InvalidateSearchCache(search_cache, pid)
    /\ invalidated' = invalidated \cup {pid}
    /\ ev' = Event("invalidate", 0, pid, FALSE, "none", 0, FALSE, NoTree)
    /\ UNCHANGED <<agent, now, ui, builders, lock, tasks, handle>>

\* every search-cache key of a pid, over the queries in use
SearchKeysOf(pid) ==
    {GetCachedSearchKey(pid, NormalizeSearchQuery(query, cs), cs) : query \in Queries, cs \in BOOLEAN}

\* how many of the five tables hold something for pid
HeldFor(pid) ==
    Cardinality({name \in {"trees", "last_updated", "elements_flat", "search_cache", "builders"} :
        \/ name = "trees" /\ pid \in DOMAIN trees
        \/ name = "last_updated" /\ pid \in DOMAIN last_updated
        \/ name = "elements_flat" /\ pid \in DOMAIN elements_flat
        \/ name = "search_cache" /\ SearchKeysOf(pid) \cap DOMAIN search_cache # {}
        \/ name = "builders" /\ pid \in DOMAIN builders})

\* OptimizedTreeManager.cleanup
Cleanup(pid) ==
    /\ lock = {}
    /\ builders' = CleanupBuilder(builders, pid)
    /\ trees' = Drop(trees, pid)
    /\ elements_flat' = Drop(elements_flat, pid)
    /\ last_updated' = Drop(last_updated, pid)
    /\ search_cache' = InvalidateSearchCache(search_cache, pid)
    /\ ev' = Event("cleanup", 0, pid, FALSE, "none", HeldFor(pid), FALSE, NoTree)
    /\ UNCHANGED <<agent, now, ui, lock, tasks, invalidated, handle>>

\* ------------------------------------------------------------- reads
\* OptimizedTreeManager.find_element_by_path
ManagerFindElementByPath(pid, element_path) ==
    /\ ev' = Event("find", 0, pid, FALSE, "none", 0, pid \in invalidated,
                   IF pid \notin DOMAIN trees THEN FindVal(element_path, NoNode, 0)
                   ELSE FindVal(element_path, FindElementByPath(trees[pid].root, element_path),
                                trees[pid].id))
    /\ UNCHANGED <<agent, now, ui, tables, lock, tasks, invalidated, handle>>

\* variant: the filtered children are stored back into the root
SnapshotAfterJsonPruned(tree, max_depth, interactive_only) ==
    IF interactive_only /\ max_depth > 0
    THEN [tree EXCEPT !.children = FilterChildrenForInteractive(tree.children)]
    ELSE tree

\* what get_tree_json leaves of the snapshot it reads: it builds new
\* dictionaries and lists and assigns to no field of a node
SnapshotAfterJson(tree, max_depth, interactive_only) == tree

\* OptimizedTreeManager.get_tree_json
GetTreeJson(pid, max_depth, interactive_only) ==
    /\ IF pid \notin DOMAIN trees
       THEN /\ ev' = Event("json", 0, pid, FALSE, "none", 0, FALSE,
                           JsonVal(max_depth, interactive_only, NoJson))
            /\ trees' = trees
       ELSE /\ ev' = Event("json", 0, pid, FALSE, "tree", 0, FALSE,
                           JsonVal(max_depth, interactive_only,
                               ConvertTreeToJsonIncremental(trees[pid].root, max_depth, 0,
                                                            NoNode.path, interactive_only)))
            /\ trees' = [trees EXCEPT ![pid].root =
                             SnapshotAfterJson(trees[pid].root, max_depth, interactive_only)]
    /\ UNCHANGED <<agent, now, ui, last_updated, elements_flat, search_cache, builders, lock, tasks,
                   invalidated, handle>>

\* the elements the converter is given directly
ConverterInputs == {Hierarchies[h] : h \in HierarchyIds} \cup {WideLayout}

\* a direct call _convert_tree_to_json_incremental(element, max_depth, 0, None, interactive_only)
ConvertTreeToJson(element, max_depth, interactive_only) ==
    /\ ev' = Event("convert", 0, 0, FALSE, "tree", 0, FALSE,
                   [max_depth |-> max_depth, interactive_only |-> interactive_only,
                    element |-> element,
                    out |-> ConvertTreeToJsonIncremental(element, max_depth, 0, NoNode.path,
                                                         interactive_only)])
    /\ UNCHANGED <<agent, now, ui, tables, lock, tasks, invalidated, handle>>

\* the elements should_load_children is asked about: every listed role and
\* two others, each without actions and with one
LoadElements ==
    {Plain(role, "/e", <<>>) : role \in StructuralRoles \cup DisplayRoles \cup {"AXButton", "AXImage"}}
    \cup {Node(role, "/e", 0, NoAttrs, <<"AXPress">>, <<>>) :
              role \in StructuralRoles \cup DisplayRoles \cup {"AXButton", "AXImage"}}

\* the depth budgets: below, at and above the structural cap
LoadMaxDepths == {2, 3, 4, 8}

\* a call cache.should_load_children(element, current_depth, max_depth)
ShouldLoadChildrenCall(element, current_depth, max_depth) ==
    /\ ev' = Event("load", 0, 0, FALSE, "none", 0, FALSE,
                   [element |-> element, current_depth |-> current_depth, max_depth |-> max_depth,
                    result |-> ShouldLoadChildren(element, current_depth, max_depth)])
    /\ UNCHANGED <<agent, now, ui, tables, lock, tasks, invalidated, handle>>

\* a call _sanitize_attributes(attributes), of optimized_tree.py and of
\* server.py, and a second call of each on its own result
SanitizeAttributesCall(attributes) ==
    /\ ev' = Event("sanitize", 0, 0, FALSE, "none", 0, FALSE,
                   [attributes |-> attributes,
                    out |-> SanitizeAttributes(attributes),
                    again |-> SanitizeAttributes(SanitizeAttributes(attributes)),
                    server_out |-> ServerSanitizeAttributes(attributes),
                    server_again |-> ServerSanitizeAttributes(ServerSanitizeAttributes(attributes))])
    /\ UNCHANGED <<agent, now, ui, tables, lock, tasks, invalidated, handle>>

HasIndex(elements, idx) == \E i \in 1..Len(elements) : elements[i].highlight_index = idx

\* OptimizedTreeManager.get_flattened_elements; the controller may keep the
\* highlight index of one of the elements it was given
GetFlattenedElements(pid, pick) ==
    LET elements == FlattenResult(trees, elements_flat, pid)
    IN  /\ lock = {}
        /\ elements_flat' = FlattenMemo(trees, elements_flat, pid)
        /\ IF pick = NoIndex THEN handle' = handle
           ELSE /\ HasIndex(elements, pick)
                /\ handle' = [pid |-> pid, idx |-> pick, id |-> trees[pid].id]
        /\ ev' = Event("flatten", 0, pid, FALSE, "none", 0, FALSE, elements)
        /\ UNCHANGED <<agent, now, ui, trees, last_updated, search_cache, builders, lock, tasks, invalidated>>

ResolveVal(node, snap) == [node |-> node, snap |-> snap]

\* basic_agent.py process_action: the element the index resolves to
\* (first flattened element with that index, then find_element_by_path)
LookupByIndex(tr, elements, pid, idx) ==
    IF pid \in DOMAIN tr /\ HasIndex(elements, idx)
    THEN LET i == CHOOSE i \in 1..Len(elements) :
                    /\ elements[i].highlight_index = idx
                    /\ \A j \in 1..(i - 1) : elements[j].highlight_index # idx
         IN  FindElementByPath(tr[pid].root, elements[i].path)
    ELSE NoNode

\* basic_agent.py process_action, click or type on the index the controller holds
ProcessAction(success) ==
    LET pid == handle.pid
        elements == FlattenResult(trees, elements_flat, pid)
        element == LookupByIndex(trees, elements, pid, handle.idx)
        acted == element # NoNode /\ success
    IN  /\ handle # NoHandle
        /\ lock = {}
        /\ ev' = Event("resolve", 0, pid, FALSE, IF acted THEN "acted" ELSE "none", 0, FALSE,
                       ResolveVal(element, IF pid \in DOMAIN trees THEN trees[pid].id ELSE 0))
        /\ IF acted
           THEN /\ trees' = Drop(trees, pid)
                /\ elements_flat' = Drop(elements_flat, pid)
                /\ last_updated' = Drop(last_updated, pid)
                /\ search_cache' = InvalidateSearchCache(search_cache, pid)
                /\ invalidated' = invalidated \cup {pid}
           ELSE /\ elements_flat' = FlattenMemo(trees, elements_flat, pid)
                /\ UNCHANGED <<trees, last_updated, search_cache, invalidated>>
        /\ \E action_name \in {"click", "type"}, text \in TypedTexts :
              /\ state' = StateAfterAction(state, action_name, text, element, handle.idx, success)
              /\ performed' = Performed(performed, state, action_name,
                                        IF action_name = "type" THEN text ELSE <<>>, acted)
        /\ UNCHANGED <<now, ui, builders, lock, tasks, handle>>

\* basic_agent.py _handle_click_loop: the controller has clicked the index it
\* holds three times (the agent: the last three of state.last_clicked_indices
\* are one index); it clicks the first other indexed element instead, records
\* the click whatever its result, and does not call invalidate_cache
HandleClickLoop(success) ==
    LET pid == handle.pid
        clicks == state.last_clicked_indices
        recent == IF state = NoState THEN <<handle.idx>> ELSE SubSeq(clicks, Len(clicks) - LoopLength + 1, Len(clicks))
        looping == \A i \in 1..Len(recent) : recent[i] = recent[1]
        elements == FlattenResult(trees, elements_flat, pid)
        Different(el) == el.highlight_index # NoIndex /\ el.highlight_index # recent[1]
        different_indices == SelectSeq(elements, Different)
        alt_element == IF ~looping \/ different_indices = <<>> THEN NoNode
                       ELSE LookupByIndex(trees, elements, pid, different_indices[1].highlight_index)
        acted == alt_element # NoNode /\ success
    IN  /\ handle # NoHandle
        /\ lock = {}
        /\ state # NoState => Len(clicks) >= LoopLength
        /\ ev' = Event("recover", 0, pid, FALSE, IF acted THEN "acted" ELSE "none", 0, FALSE,
                       ResolveVal(alt_element, IF pid \in DOMAIN trees THEN trees[pid].id ELSE 0))
        /\ elements_flat' = IF looping THEN FlattenMemo(trees, elements_flat, pid) ELSE elements_flat
        /\ state' = IF alt_element = NoNode THEN state
                    ELSE Update(state, "click", TRUE, ElementString(alt_element),
                                different_indices[1].highlight_index)
        /\ performed' = Performed(performed, state, "click", <<>>, acted)
        /\ UNCHANGED <<now, ui, trees, last_updated, search_cache, builders, lock, tasks,
                       invalidated, handle>>

\* ---------------------------------------------------- the agent's step
\* the cache tables and the agent's state, as the calls of one handler change them
World ==
    [trees |-> trees, last_updated |-> last_updated, elements_flat |-> elements_flat,
     search_cache |-> search_cache, invalidated |-> invalidated,
     state |-> state, performed |-> performed]

Becomes(w) ==
    /\ trees' = w.trees
    /\ last_updated' = w.last_updated
    /\ elements_flat' = w.elements_flat
    /\ search_cache' = w.search_cache
    /\ invalidated' = w.invalidated
    /\ state' = w.state
    /\ performed' = w.performed

\* tree_manager.invalidate_cache(pid), inside a handler
Invalidate(w, pid) ==
    [w EXCEPT !.trees = Drop(@, pid), !.elements_flat = Drop(@, pid),
              !.last_updated = TimestampsAfterInvalidate(@, pid),
              !.search_cache = InvalidateSearchCache(@, pid),
              !.invalidated = @ \cup {pid}]

\* tree_manager.get_flattened_elements(pid), inside a handler: the memo it leaves
Flattened(w, pid) == [w EXCEPT !.elements_flat = FlattenMemo(w.trees, @, pid)]

\* a successful confirming click: state.update('click', True, str(element), index); state.ok_clicked = True
Confirmed(w, element, index) ==
    [w EXCEPT !.state = [Update(@, "click", TRUE, ElementString(element), index) EXCEPT !.ok_clicked = TRUE],
              !.performed = Performed(@, w.state, "click", <<>>, TRUE)]

\* basic_agent.py _try_axconfirm_on_text_field
TryAxconfirmOnTextField(w, pid, success) ==
    LET elements == FlattenResult(w.trees, w.elements_flat, pid)
        w1 == Flattened(w, pid)
        text_field_element == LookupByIndex(w.trees, elements, pid, TextFieldIndex)
        able == /\ text_field_element # NoNode
                /\ \E i \in 1..Len(text_field_element.actions) : text_field_element.actions[i] = "AXConfirm"
    IN  IF able /\ success
        THEN [world |-> Confirmed(w1, text_field_element, TextFieldIndex), ok |-> TRUE, elements |-> elements]
        ELSE [world |-> w1, ok |-> FALSE, elements |-> elements]

\* _try_click_ok_buttons: ok_keywords
OkKeywords == { <<"o","k">>,
                <<"a","c","e","p","t","a","r">>,
                <<"a","c","c","e","p","t">>,
                <<"c","o","n","f","i","r","m">>,
                <<"c","r","e","a","r">>,
                <<"c","r","e","a","t","e">>,
                <<"d","o","n","e">>,
                <<"a","p","p","l","y">>,
                <<"s","a","v","e">>,
                <<"g","u","a","r","d","a","r">> }

AttrOf(attributes, key) == IF key \in DOMAIN attributes THEN attributes[key] ELSE <<>>

\* basic_agent.py _try_click_ok_buttons
TryClickOkButtons(w, pid, success) ==
    LET w0 == Invalidate(w, pid)
        elements == FlattenResult(w0.trees, w0.elements_flat, pid)
        w1 == Flattened(w0, pid)
        Found(el) ==
            /\ el.is_interactive
            /\ Contains(Lower(RoleText(el.role)), <<"b","u","t","t","o","n">>)
            /\ \E keyword \in OkKeywords :
                  \/ Contains(Lower(AttrOf(el.attributes, "title")), keyword)
                  \/ Contains(Lower(AttrOf(el.attributes, "description")), keyword)
            /\ pid \in DOMAIN w1.trees
            /\ FindElementByPath(w1.trees[pid].root, el.path) # NoNode
        found == SelectSeq(elements, Found)
    IN  IF found # <<>> /\ success
        THEN [world |-> Invalidate(Confirmed(w1, FindElementByPath(w1.trees[pid].root, found[1].path),
                                             found[1].highlight_index), pid),
              ok |-> TRUE, elements |-> elements]
        ELSE [world |-> w1, ok |-> FALSE, elements |-> elements]

\* basic_agent.py _handle_typing_loop: the world it leaves and the element
\* lists its two attempts obtained
HandleTypingLoopCalls(w, pid, success) ==
    LET w0 == Invalidate([w EXCEPT !.state.folder_name_entered = TRUE], pid)
        confirm == TryAxconfirmOnTextField(w0, pid, success)
        buttons == TryClickOkButtons(confirm.world, pid, success)
    IN  IF confirm.ok THEN [world |-> confirm.world, lists |-> <<confirm.elements>>]
        ELSE [world |-> buttons.world, lists |-> <<confirm.elements, buttons.elements>>]

\* a call _handle_typing_loop(state, tree_manager, pid)
HandleTypingLoop(success) ==
    LET r == HandleTypingLoopCalls(World, AgentPid, success)
    IN  /\ state # NoState
        /\ lock = {}
        /\ Becomes(r.world)
        /\ ev' = Event("typing_loop", 0, AgentPid, FALSE,
                       IF r.world.state.ok_clicked THEN "acted" ELSE "none", 0, FALSE, r.lists)
        /\ UNCHANGED <<now, ui, builders, lock, tasks, handle>>

\* a call _try_click_ok_buttons(tree_manager, pid, state)
ClickOkButtons(success) ==
    LET r == TryClickOkButtons(World, AgentPid, success)
    IN  /\ state # NoState
        /\ lock = {}
        /\ Becomes(r.world)
        /\ ev' = Event("click_ok", 0, AgentPid, FALSE, IF r.ok THEN "acted" ELSE "none", 0, FALSE,
                       <<r.elements>>)
        /\ UNCHANGED <<now, ui, builders, lock, tasks, handle>>

\* main: the agent is at the head of its loop, or asleep at the end of a step
AtLoopHead ==
    /\ state # NoState
    /\ tasks[AgentTask].pc = "idle"
    /\ \/ ev.kind \in {"init", "tick", "ui"}
       \/ ev.kind = "sleep" /\ ev.build = "sleep"
       \/ ev.kind = "checks" /\ ev.build = "retry"

\* time passes and the Notes window changes while the agent awaits
Awaiting == AtLoopHead \/ tasks[AgentTask].pc = "await_build"

\* _execute_automation_step, up to its call of build_tree
StepBegins ==
    /\ AtLoopHead
    /\ lock = {}
    /\ IF state.ok_clicked
       THEN /\ ev' = Event("step", AgentTask, AgentPid, FALSE, "done", 0, FALSE, NoTree)
            /\ UNCHANGED <<tables, invalidated>>
       ELSE /\ Becomes(IF state.folder_name_entered THEN Invalidate(World, AgentPid) ELSE World)
            /\ ev' = Event("step", AgentTask, AgentPid, FALSE, "call", 0, FALSE, NoTree)
            /\ UNCHANGED builders
    /\ UNCHANGED <<agent, now, ui, lock, tasks, handle>>

\* _execute_automation_step: await tree_manager.build_tree(pid)
StepBuilds ==
    /\ state # NoState
    /\ ev.kind = "step" /\ ev.build = "call"
    /\ BuildTree(AgentTask, AgentPid, FALSE, TRUE, NoDepth)

\* _execute_automation_step from the return of build_tree to llm.invoke: the
\* goal test, the typing-loop test and its handler; index is the highlight
\* index the language model then names
StepChecks(goal, success, index) ==
    LET root == IF ev.build \in {"hit", "tree"} THEN ev.val ELSE NoTree
        detected == root # NoTree /\ ~goal /\ TypingLoopDetected(state)
        r == IF detected THEN HandleTypingLoopCalls(World, AgentPid, success)
             ELSE [world |-> World, lists |-> <<>>]
        next == IF root = NoTree THEN "retry"
                ELSE IF goal \/ r.world.state.ok_clicked THEN "done"
                ELSE "llm"
    IN  /\ state # NoState
        /\ ev.kind = "build" /\ ev.task = AgentTask /\ ev.build \in {"hit", "tree", "none", "raise"}
        /\ lock = {}
        /\ Becomes(r.world)
        /\ handle' = IF next = "llm" THEN [pid |-> AgentPid, idx |-> index, id |-> root.id] ELSE handle
        /\ ev' = Event("checks", AgentTask, AgentPid, FALSE, next, 0, FALSE,
                       [typing_loop |-> detected, lists |-> r.lists])
        /\ UNCHANGED <<now, ui, builders, lock, tasks>>

\* _execute_automation_step: process_llm_response, process_action
StepActs(success) ==
    /\ state # NoState
    /\ ev.kind = "checks" /\ ev.build = "llm"
    /\ ProcessAction(success)

\* _execute_automation_step: the click-loop test and _handle_click_loop
StepRecovers(success) ==
    /\ state # NoState
    /\ ev.kind = "resolve"
    /\ HandleClickLoop(success)

\* _execute_automation_step: the last goal test and asyncio.sleep(1.0)
StepEnds(goal) ==
    /\ state # NoState
    /\ \/ ev.kind = "recover"
       \/ ev.kind = "resolve" /\ Len(state.last_clicked_indices) < LoopLength
    /\ ev' = Event("sleep", AgentTask, AgentPid, FALSE, IF goal THEN "done" ELSE "sleep", 0, FALSE, NoTree)
    /\ UNCHANGED <<agent, now, ui, tables, lock, tasks, invalidated, handle>>

\* OptimizedTreeManager.clear_all_caches, and the server's clear_caches. The
\* loop `for pid in builders.keys(): cleanup_builder(pid)` deletes from the
\* dictionary it iterates: the first builder is deleted, then the iterator
\* raises RuntimeError (dictionary changed size during iteration) before the
\* tables are cleared. The dictionary's order is not kept by the model, so
\* any builder may be the first.
ClearAllCaches ==
    IF builders = <<>>
    THEN /\ lock = {}
         /\ trees' = <<>>
         /\ elements_flat' = <<>>
         /\ search_cache' = <<>>
         /\ last_updated' = <<>>
         /\ invalidated' = invalidated \cup Pids
         /\ ev' = Event("clear", 0, 0, FALSE, "ok", 0, FALSE, NoTree)
         /\ UNCHANGED <<agent, now, ui, builders, lock, tasks, handle>>
    ELSE /\ \E pid \in DOMAIN builders : builders' = CleanupBuilder(builders, pid)
         /\ ev' = Event("clear", 0, 0, FALSE, "raise", 0, FALSE, NoTree)
         /\ UNCHANGED <<agent, now, ui, trees, last_updated, elements_flat, search_cache, lock, tasks,
                        invalidated, handle>>

\* OptimizedTreeManager._element_cache: latest_pid
LatestPid == CHOOSE pid \in DOMAIN trees : \A other \in DOMAIN trees : other <= pid

\* OptimizedTreeManager._element_cache[idx]: the last flattened element with
\* that index whose path resolves
ElementCacheGet(tr, elements, pid, idx) ==
    LET hits == {i \in 1..Len(elements) :
                    /\ elements[i].highlight_index = idx
                    /\ FindElementByPath(tr[pid].root, elements[i].path) # NoNode}
    IN  IF hits = {} THEN NoNode
        ELSE LET i == CHOOSE i \in hits : \A j \in hits : j <= i
             IN  FindElementByPath(tr[pid].root, elements[i].path)

\* a lookup of the index the controller holds in OptimizedTreeManager._element_cache
ElementCacheLookup ==
    /\ handle # NoHandle
    /\ lock = {}
    /\ IF trees = <<>>
       THEN /\ ev' = Event("resolve", 0, handle.pid, FALSE, "cache", 0, FALSE, ResolveVal(NoNode, 0))
            /\ UNCHANGED elements_flat
       ELSE LET elements == FlattenResult(trees, elements_flat, LatestPid)
            IN  /\ elements_flat' = FlattenMemo(trees, elements_flat, LatestPid)
                /\ ev' = Event("resolve", 0, LatestPid, FALSE, "cache", 0, FALSE,
                               ResolveVal(ElementCacheGet(trees, elements, LatestPid, handle.idx),
                                          trees[LatestPid].id))
    /\ UNCHANGED <<agent, now, ui, trees, last_updated, search_cache, builders, lock, tasks, invalidated, handle>>

\* the tables a handler assigns inside `with cache.lock`, by the kind of its event
TablesLockedBy(kind) ==
    CASE kind = "build"      -> {"trees", "last_updated", "elements_flat"}
      [] kind = "search"     -> {"trees", "last_updated", "elements_flat", "search_cache"}
      [] kind = "invalidate" -> {"trees", "last_updated", "elements_flat", "search_cache"}
      [] kind = "cleanup"    -> {"trees", "last_updated", "elements_flat", "search_cache"}
      [] kind = "clear"      -> {"trees", "last_updated", "elements_flat", "search_cache"}
      [] kind = "resolve"    -> {"trees", "last_updated", "elements_flat", "search_cache"}
      [] kind = "flatten"    -> {"elements_flat"}
      [] kind = "recover"    -> {"elements_flat"}
      [] OTHER               -> {}

\* ------------------------------------------------------------ specifications
\* One controller task drives one process: every cache operation in sequence.
Next ==
    \/ Tick
    \/ \E pid \in SeqPids, layout \in LayoutIds : UIChange(pid, layout)
    \/ \E p \in SeqTasks, pid \in SeqPids, force \in BOOLEAN, lazy_mode \in BOOLEAN, max_depth \in ExplicitDepths :
          BuildTree(p, pid, force, lazy_mode, max_depth)
    \/ \E p \in SeqTasks, pid \in SeqPids, query \in Queries, cs \in BOOLEAN : SearchElements(p, pid, query, cs)
    \/ \E p \in SeqTasks, outcome \in {"tree", "none", "raise"} : BuilderReturns(p, outcome)
    \/ \E pid \in SeqPids : InvalidateCache(pid)
    \/ \E pid \in SeqPids : Cleanup(pid)
    \/ \E pid \in SeqPids : GetFlattenedElements(pid, NoIndex)

Spec == Init /\ [][Next]_vars

\* One controller task reads highlight indices and resolves them later.
NextIndex ==
    \/ Tick
    \/ \E pid \in SeqPids, layout \in LayoutIds : UIChange(pid, layout)
    \/ \E p \in SeqTasks, pid \in SeqPids, force \in BOOLEAN : BuildTree(p, pid, force, TRUE, NoDepth)
    \/ \E p \in SeqTasks, outcome \in {"tree", "none", "raise"} : BuilderReturns(p, outcome)
    \/ \E pid \in SeqPids : InvalidateCache(pid)
    \/ \E pid \in SeqPids, pick \in Indices \cup {NoIndex} : GetFlattenedElements(pid, pick)
    \/ \E success \in BOOLEAN : ProcessAction(success)
    \/ \E success \in BOOLEAN : HandleClickLoop(success)
    \/ ElementCacheLookup

SpecIndex == Init /\ [][NextIndex]_vars

\* Two tasks whose calls on one process overlap at the builder awaits.
NextOverlap ==
    \/ OverlapTick
    \/ \E p \in Tasks, pid \in SeqPids, force \in BOOLEAN, lazy_mode \in BOOLEAN :
          BuildTree(p, pid, force, lazy_mode, NoDepth)
    \/ \E p \in Tasks, outcome \in {"tree", "none", "raise"} : BuilderReturns(p, outcome)
    \/ \E p \in Tasks, pid \in SeqPids, element_path \in OverlapPaths : ExpandElement(p, pid, element_path)
    \/ \E p \in Tasks, outcome \in {"node", "none", "raise"} : ExpandReturns(p, outcome)
    \/ \E pid \in SeqPids : InvalidateCache(pid)
    \/ \E pid \in SeqPids : Cleanup(pid)

SpecOverlap == Init /\ [][NextOverlap]_vars

\* One task reads a snapshot of any hierarchy: lookups by path, the JSON
\* views, searches and expansions.
NextRead ==
    \/ ShortTick
    \/ \E p \in SeqTasks, pid \in SeqPids : BuildTree(p, pid, FALSE, TRUE, NoDepth)
    \/ \E p \in SeqTasks, outcome \in {"tree", "none", "raise"} : BuilderReturns(p, outcome)
    \/ \E pid \in SeqPids, element_path \in ReadPaths : ManagerFindElementByPath(pid, element_path)
    \/ \E pid \in SeqPids, max_depth \in JsonDepths, interactive_only \in BOOLEAN :
          GetTreeJson(pid, max_depth, interactive_only)
    \/ \E p \in SeqTasks, pid \in SeqPids, query \in ReadQueries, cs \in BOOLEAN :
          SearchElements(p, pid, query, cs)
    \/ \E p \in SeqTasks, pid \in SeqPids, element_path \in ReadPaths : ExpandElement(p, pid, element_path)
    \/ \E p \in SeqTasks, outcome \in {"node", "none", "raise"} : ExpandReturns(p, outcome)
    \/ \E pid \in SeqPids : InvalidateCache(pid)

SpecRead == InitRead /\ [][NextRead]_vars

\* One task looks paths up while the process changes what it shows and the
\* snapshot is rebuilt, invalidated and expanded.
NextPath ==
    \/ ShortTick
    \/ \E pid \in SeqPids, layout \in LayoutIds : UIChange(pid, layout)
    \/ \E p \in SeqTasks, pid \in SeqPids, force \in BOOLEAN, lazy_mode \in BOOLEAN, max_depth \in ExplicitDepths :
          BuildTree(p, pid, force, lazy_mode, max_depth)
    \/ \E p \in SeqTasks, outcome \in {"tree", "none", "raise"} : BuilderReturns(p, outcome)
    \/ \E pid \in SeqPids, element_path \in PathsLookedUp : ManagerFindElementByPath(pid, element_path)
    \/ \E p \in SeqTasks, pid \in SeqPids, element_path \in OverlapPaths : ExpandElement(p, pid, element_path)
    \/ \E p \in SeqTasks, outcome \in {"node", "none", "raise"} : ExpandReturns(p, outcome)
    \/ \E pid \in SeqPids : InvalidateCache(pid)

SpecPath == Init /\ [][NextPath]_vars

\* One task works on two processes whose ids are 1 and 12.
NextPids ==
    \/ ShortTick
    \/ \E p \in SeqTasks, pid \in Pids, force \in BOOLEAN : BuildTree(p, pid, force, TRUE, NoDepth)
    \/ \E p \in SeqTasks, pid \in Pids, query \in Queries : SearchElements(p, pid, query, FALSE)
    \/ \E p \in SeqTasks, outcome \in {"tree", "none", "raise"} : BuilderReturns(p, outcome)
    \/ \E pid \in Pids : InvalidateCache(pid)
    \/ \E pid \in Pids : Cleanup(pid)
    \/ \E pid \in Pids : GetFlattenedElements(pid, NoIndex)
    \/ ClearAllCaches

SpecPids == Init /\ [][NextPids]_vars

\* The converter is applied to elements of any width, next to the views of a
\* stored snapshot.
NextConvert ==
    \/ ShortTick
    \/ \E p \in SeqTasks, pid \in SeqPids : BuildTree(p, pid, FALSE, TRUE, NoDepth)
    \/ \E p \in SeqTasks, outcome \in {"tree", "none", "raise"} : BuilderReturns(p, outcome)
    \/ \E pid \in SeqPids, max_depth \in JsonDepths, interactive_only \in BOOLEAN :
          GetTreeJson(pid, max_depth, interactive_only)
    \/ \E element \in ConverterInputs, max_depth \in JsonDepths, interactive_only \in BOOLEAN :
          ConvertTreeToJson(element, max_depth, interactive_only)

SpecConvert == InitRead /\ [][NextConvert]_vars

\* One task builds the trees of two processes and reads highlight indices
\* through the compatibility view.
NextCompat ==
    \/ ShortTick
    \/ \E p \in SeqTasks, pid \in Pids : BuildTree(p, pid, FALSE, TRUE, NoDepth)
    \/ \E p \in SeqTasks, outcome \in {"tree", "none", "raise"} : BuilderReturns(p, outcome)
    \/ \E pid \in Pids, pick \in Indices \cup {NoIndex} : GetFlattenedElements(pid, pick)
    \/ \E pid \in Pids : InvalidateCache(pid)
    \/ ElementCacheLookup

SpecCompat == Init /\ [][NextCompat]_vars

\* the agent starts on the Notes window with an empty cache
InitAgent ==
    /\ now = StartTime
    /\ ui = [pid \in Pids |-> NotesLayoutId]
    /\ trees = <<>>
    /\ last_updated = <<>>
    /\ elements_flat = <<>>
    /\ search_cache = <<>>
    /\ builders = <<>>
    /\ lock = {}
    /\ tasks = [t \in Tasks |-> IdleTask]
    /\ invalidated = {}
    /\ handle = NoHandle
    /\ state = NewState
    /\ performed = <<>>
    /\ ev = Event("init", 0, 0, FALSE, "none", 0, FALSE, NoTree)

\* The folder-creation agent runs its steps against the Notes process.
NextAgent ==
    \/ Awaiting /\ AgentTick
    \/ \E layout \in AgentLayoutIds : Awaiting /\ UIChange(AgentPid, layout)
    \/ StepBegins
    \/ StepBuilds
    \/ \E outcome \in {"tree", "none", "raise"} : BuilderReturns(AgentTask, outcome)
    \/ \E goal \in BOOLEAN, success \in BOOLEAN, index \in Indices : StepChecks(goal, success, index)
    \/ \E success \in BOOLEAN : StepActs(success)
    \/ \E success \in BOOLEAN : StepRecovers(success)
    \/ \E goal \in BOOLEAN : StepEnds(goal)

SpecAgent == InitAgent /\ [][NextAgent]_vars

\* The recovery handlers are called on the cache of the Notes process.
NextRecovery ==
    \/ ShortTick
    \/ \E layout \in AgentLayoutIds : UIChange(AgentPid, layout)
    \/ \E force \in BOOLEAN : BuildTree(AgentTask, AgentPid, force, TRUE, NoDepth)
    \/ \E outcome \in {"tree", "none", "raise"} : BuilderReturns(AgentTask, outcome)
    \/ GetFlattenedElements(AgentPid, NoIndex)
    \/ \E success \in BOOLEAN : HandleTypingLoop(success)
    \/ \E success \in BOOLEAN : ClickOkButtons(success)

SpecRecovery == InitAgent /\ [][NextRecovery]_vars

\* Attribute maps of every kind are sanitized.
NextSanitize ==
    \/ ShortTick
    \/ \E attributes \in AttributeMaps : SanitizeAttributesCall(attributes)

SpecSanitize == Init /\ [][NextSanitize]_vars

\* The builder's heuristic is asked about elements of every kind.
NextHeuristic ==
    \/ ShortTick
    \/ \E element \in LoadElements, current_depth \in 0..MaxLoadDepth, max_depth \in LoadMaxDepths :
          ShouldLoadChildrenCall(element, current_depth, max_depth)

SpecHeuristic == Init /\ [][NextHeuristic]_vars

\* ------------------------------------------------------------------ claims
Returned == {"hit", "tree", "none", "raise"}

Fresh(pid) ==
    pid \in DOMAIN trees /\ pid \in DOMAIN last_updated /\ now - last_updated[pid] < CacheWindow

\* C1: a build_tree(pid, force_refresh=false) call that finds a stored snapshot
\* younger than the freshness window returns that snapshot, invokes no builder
\* and leaves snapshot, timestamp, flattened index, search cache and builders
\* unchanged; with no snapshot or an age of at least the window it invokes the
\* builder.
C1_FreshSnapshotServedFromCache ==
    [][ (ev'.kind = "build" /\ ev'.build \in {"hit", "invoke"} /\ ~ev'.force) =>
            IF Fresh(ev'.pid)
            THEN /\ ev'.build = "hit"
                 /\ ev'.val = trees[ev'.pid]
                 /\ UNCHANGED <<trees, last_updated, elements_flat, search_cache, builders, tasks>>
            ELSE /\ ev'.build = "invoke"
                 /\ tasks'[ev'.task].pc = "await_build" ]_vars

\* C1 witness: a non-forced call was just served from the cache while a
\* flattened index and a memoized search result were stored
C1_Witness ==
    /\ ev.kind = "build" /\ ev.build = "hit" /\ ~ev.force
    /\ ev.pid \in DOMAIN elements_flat
    /\ search_cache # <<>>
    /\ now - last_updated[ev.pid] = CacheWindow - 1

\* C2 (as claimed): the first build_tree(pid) call after invalidate_cache(pid)
\* is never served from the cache: it invokes the builder.
C2_BuildAfterInvalidateRebuilds ==
    (ev.kind = "build" /\ ev.build \in {"hit", "invoke"} /\ ev.inval) => ev.build = "invoke"

\* C3 (as claimed): a forced build_tree call is never served from the cache,
\* and when it has returned last_updated[pid] is later than the value stored
\* before the call.
C3_ForcedBuildAlwaysNewTimestamp ==
    (ev.kind = "build" /\ ev.force) =>
        /\ ev.build # "hit"
        /\ ev.build \in {"tree", "none", "raise"} =>
              (ev.pid \in DOMAIN last_updated /\ last_updated[ev.pid] > ev.before)

\* C3 (amended): a forced build_tree call is never served from the cache, and
\* when its builder has returned a tree last_updated[pid] is the time the call
\* began, later than the value stored before the call.
C3_ForcedBuildNewTimestampOnSuccess ==
    (ev.kind = "build" /\ ev.force) =>
        /\ ev.build # "hit"
        /\ ev.build = "tree" =>
              (ev.pid \in DOMAIN last_updated /\ last_updated[ev.pid] > ev.before)

\* C3 witness: a forced build just replaced a snapshot that was still inside
\* its freshness window
C3_Witness ==
    /\ ev.kind = "build" /\ ev.force /\ ev.build = "tree"
    /\ ev.before >= StartTime
    /\ now - ev.before < CacheWindow

\* C4: when cleanup(pid) has returned, the cache holds no snapshot, timestamp,
\* flattened index, search-cache entry or builder for pid.
C4_CleanupLeavesNothing ==
    ev.kind = "cleanup" =>
        /\ ev.pid \notin DOMAIN trees
        /\ ev.pid \notin DOMAIN last_updated
        /\ ev.pid \notin DOMAIN elements_flat
        /\ ev.pid \notin DOMAIN builders
        /\ SearchKeysOf(ev.pid) \cap DOMAIN search_cache = {}

\* C4 witness: cleanup just ran on a pid that had an entry in all five tables
C4_Witness == ev.kind = "cleanup" /\ ev.before = 5

\* C5 (as claimed): when build_tree has stored a newly built snapshot, neither
\* the flattened index nor any search-cache entry of the pid is left.
C5_SwapDropsDerivedData ==
    (ev.kind = "build" /\ ev.build = "tree") =>
        /\ ev.pid \notin DOMAIN elements_flat
        /\ SearchKeysOf(ev.pid) \cap DOMAIN search_cache = {}

\* the match set of the pid's current snapshot
CurrentMatches(pid, q, cs) ==
    IF pid \in DOMAIN trees
    THEN MatchingElements(CollectElements(trees[pid].root, NoNode.path), q, cs)
    ELSE <<>>

\* C6 (as claimed): a result returned by search_elements equals the match set
\* of the pid's snapshot that is current when it returns.
C6_SearchResultIsCurrent ==
    (ev.kind = "search" /\ ev.build \in Returned \cup {"memo"}) =>
        ev.val.elements = CurrentMatches(ev.pid, ev.val.q, ev.val.cs)

\* C7 (as claimed): a search never answers while the pid has no snapshot or a
\* snapshot older than the freshness window without triggering a build, also
\* when it answers from a memoized result.
C7_SearchAlwaysEnsuresFreshSnapshot ==
    (ev.kind = "search" /\ ev.build = "memo") => Fresh(ev.pid)

\* C7 (amended): a search that finds no memoized result calls build_tree(pid)
\* before answering (served from a fresh snapshot, else the builder is
\* invoked); a search that finds a memoized result returns it and changes
\* nothing.
C7_SearchBuildsOnMiss ==
    [][ (ev'.kind = "search" /\ ev'.build \in {"memo", "hit", "invoke"}) =>
            LET key == GetCachedSearchKey(ev'.pid, ev'.val.q, ev'.val.cs)
            IN  IF key \in DOMAIN search_cache
                THEN /\ ev'.build = "memo"
                     /\ ev'.val.elements = search_cache[key]
                     /\ UNCHANGED <<trees, last_updated, elements_flat, search_cache, builders, tasks>>
                ELSE IF Fresh(ev'.pid)
                THEN /\ ev'.build = "hit"
                     /\ UNCHANGED <<trees, last_updated, tasks>>
                ELSE /\ ev'.build = "invoke"
                     /\ tasks'[ev'.task].pc = "await_build" ]_vars

\* C7 witness: a search without memoized result found a snapshot older than
\* the window and invoked the builder
C7_Witness ==
    /\ ev.kind = "search" /\ ev.build = "invoke"
    /\ ev.pid \in DOMAIN trees
    /\ now - last_updated[ev.pid] >= CacheWindow

\* C8 (as claimed): once no build_tree or expand_element call on a pid is in
\* flight, the pid's builder has the default max_depth and max_children.
C8_OverridesRestored ==
    \A pid \in DOMAIN builders :
        InFlight(pid) = {} =>
            /\ builders[pid].max_depth = DefaultMaxDepth
            /\ builders[pid].max_children = DefaultMaxChildren

C10_IndexResolvedAgainstItsSnapshot ==
    (ev.kind = "resolve" /\ ev.val.node # NoNode) => ev.val.snap = handle.id

\* the nodes of a tree in depth-first pre-order
RECURSIVE PreOrder(_)
RECURSIVE PreOrderOfAll(_)
PreOrder(node) == <<node>> \o PreOrderOfAll(node.children)

PreOrderOfAll(children) ==
    IF children = <<>> THEN <<>> ELSE PreOrder(Head(children)) \o PreOrderOfAll(Tail(children))

\* the first node of the pid's snapshot, in pre-order, that has the path
FirstWithPath(pid, path) ==
    IF pid \notin DOMAIN trees THEN NoNode
    ELSE LET nodes == PreOrder(trees[pid].root)
             at == {i \in 1..Len(nodes) : nodes[i].path = path}
         IN  IF at = {} THEN NoNode
             ELSE nodes[CHOOSE i \in at : \A j \in at : i <= j]

\* C11: find_element_by_path(pid, path) returns no node when the pid has no
\* snapshot or no node of the snapshot has that accessibility path, and
\* otherwise the first node in depth-first pre-order with that path; it has
\* no other outcome.
C11_FindReturnsFirstInPreOrder ==
    ev.kind = "find" => ev.val.node = FirstWithPath(ev.pid, ev.val.path)

\* C11 witness: a lookup just returned the first of two nodes that carry the
\* path, the one nested under the earlier sibling
C11_Witness ==
    /\ ev.kind = "find" /\ ev.val.path = "/d/y"
    /\ ev.pid \in DOMAIN trees
    /\ Cardinality({i \in 1..Len(PreOrder(trees[ev.pid].root)) :
                       PreOrder(trees[ev.pid].root)[i].path = "/d/y"}) = 2
    /\ ev.val.node.attributes = TitleOk

\* C12: find_element_by_path follows the current snapshot: invalidate_cache
\* leaves no snapshot, a snapshot appears again only when a build stores one,
\* and a lookup returns the node of the snapshot that is current (for a path
\* of snapshot N: its node while N is stored, not-found after the invalidate
\* and after a rebuild stored a snapshot lacking the path), never a node of a
\* dropped snapshot.
C12_FindFollowsCurrentSnapshot ==
    [][ /\ ev'.kind = "invalidate" => ev'.pid \notin DOMAIN trees'
        /\ \A pid \in Pids :
              (pid \notin DOMAIN trees /\ pid \in DOMAIN trees') =>
                  (ev'.kind \in {"build", "search"} /\ ev'.build = "tree" /\ ev'.pid = pid)
        /\ ev'.kind = "find" =>
              /\ trees' = trees
              /\ IF ev'.pid \in DOMAIN trees
                 THEN /\ ev'.val.snap = trees[ev'.pid].id
                      /\ \/ /\ ev'.val.node = NoNode
                            /\ \A i \in 1..Len(PreOrder(trees[ev'.pid].root)) :
                                  PreOrder(trees[ev'.pid].root)[i].path # ev'.val.path
                         \/ \E i \in 1..Len(PreOrder(trees[ev'.pid].root)) :
                               /\ PreOrder(trees[ev'.pid].root)[i] = ev'.val.node
                               /\ ev'.val.node.path = ev'.val.path
                 ELSE ev'.val.node = NoNode /\ ev'.val.snap = 0 ]_vars

\* C12 witness: a lookup of the button's path just missed in a snapshot that
\* a later build stored after the process had replaced the button
C12_Witness ==
    /\ ev.kind = "find" /\ ev.val.path = "/w/ok" /\ ev.val.node = NoNode
    /\ ev.pid \in DOMAIN trees
    /\ last_updated[ev.pid] > StartTime
    /\ FindElementByPath(Layouts[1], "/w/ok") # NoNode

\* everything the cache holds for one pid
PidState(q) ==
    [trees |-> IF q \in DOMAIN trees THEN <<trees[q]>> ELSE <<>>,
     last_updated |-> IF q \in DOMAIN last_updated THEN <<last_updated[q]>> ELSE <<>>,
     elements_flat |-> IF q \in DOMAIN elements_flat THEN <<elements_flat[q]>> ELSE <<>>,
     builders |-> IF q \in DOMAIN builders THEN <<builders[q]>> ELSE <<>>,
     search_cache |-> [k \in {k \in DOMAIN search_cache :
                                  SubSeq(k, 1, Len(Digits(q)) + 1) = Digits(q) \o <<":">>}
                          |-> search_cache[k]]]

\* C13: build_tree, invalidate_cache, cleanup, get_flattened_elements and
\* search_elements on one pid leave the snapshot, timestamp, flattened index,
\* search-cache entries and builder of every other pid unchanged, also for
\* pids 1 and 12, where "1" is a prefix of "12".
C13_OtherPidsUntouched ==
    [][ ev'.kind \in {"build", "search", "invalidate", "cleanup", "flatten"} =>
            \A q \in Pids \ {ev'.pid} : PidState(q)' = PidState(q) ]_vars

\* C13 witness: invalidate_cache(1) just ran while pid 12 holds a snapshot, a
\* timestamp, a flattened index, a search-cache entry and a builder
C13_Witness ==
    /\ ev.kind = "invalidate" /\ ev.pid = 1
    /\ HeldFor(12) = 5

\* C14 (as claimed): a stored snapshot is replaced only wholesale: as long as
\* the same snapshot object is stored for a pid, no step changes the children
\* of any of its nodes.
C14_SnapshotReplacedOnlyWholesale ==
    [][ \A pid \in Pids :
            (pid \in DOMAIN trees /\ pid \in DOMAIN trees' /\ trees'[pid].id = trees[pid].id) =>
                trees'[pid].root = trees[pid].root ]_vars

\* elements is the pre-order list of the summaries of the tree's nodes, each
\* with the path of its parent
IsFlattening(elements, root) ==
    LET nodes == PreOrder(root)
    IN  /\ Len(elements) = Len(nodes)
        /\ \A i \in 1..Len(nodes) :
              /\ elements[i] = ElementInfo(nodes[i], elements[i].parent_path)
              /\ IF i = 1 THEN elements[i].parent_path = NoNode.path
                 ELSE \E j \in 1..(i - 1) :
                         /\ nodes[j].path = elements[i].parent_path
                         /\ \E c \in 1..Len(nodes[j].children) : nodes[j].children[c] = nodes[i]

\* C15: whenever get_flattened_elements(pid) returns, its result is the
\* pre-order flattening of the pid's current snapshot (empty if there is
\* none), and a memoized flattened index is always the flattening of the
\* stored snapshot, for every interleaving of get_flattened_elements with
\* build_tree and invalidate_cache.
C15_FlattenedIndexIsCurrent ==
    /\ ev.kind = "flatten" =>
          IF ev.pid \in DOMAIN trees THEN IsFlattening(ev.val, trees[ev.pid].root)
          ELSE ev.val = <<>>
    /\ \A pid \in DOMAIN elements_flat :
          pid \in DOMAIN trees /\ IsFlattening(elements_flat[pid], trees[pid].root)

\* C15 witness: get_flattened_elements just returned the flattening of a
\* snapshot of the second layout that directly replaced another snapshot
C15_Witness ==
    /\ ev.kind = "flatten" /\ ev.pid \in DOMAIN trees
    /\ trees[ev.pid].id = 2
    /\ trees[ev.pid].root = Layouts[2]
    /\ Len(ev.val) = 4

\* the values of title, value, description, label and placeholder, in that
\* order, that satisfy keep
ValuesKept(attrs, keep(_)) ==
    SelectSeq([i \in 1..Len(AttrKeys) |->
                  IF AttrKeys[i] \in DOMAIN attrs THEN attrs[AttrKeys[i]] ELSE <<>>], keep)

\* the role, then the kept attribute values, then the action names, joined by
\* single spaces
SearchableString(element, keep(_)) ==
    JoinSpace(<<RoleText(element.role)>> \o ValuesKept(element.attributes, keep)
              \o [i \in 1..Len(element.actions) |-> ActionText(element.actions[i])])

NonEmpty(v) == v # <<>>

NonBlank(v) == \E i \in 1..Len(v) : v[i] # " "

\* the elements of the pid's flattened snapshot, in order, whose searchable
\* string contains the query (both case-folded unless case-sensitive)
ElementsContaining(pid, q, cs, keep(_)) ==
    LET has(element) ==
            LET text == SearchableString(element, keep)
            IN  Contains(IF cs THEN text ELSE Lower(text), q)
    IN  IF pid \in DOMAIN trees
        THEN SelectSeq(CollectElements(trees[pid].root, NoNode.path), has)
        ELSE <<>>

SearchAnswer(pid, query, cs) ==
    LET q == NormalizeSearchQuery(query, cs)
        key == GetCachedSearchKey(pid, q, cs)
    IN  IF SearchCacheHit(key) THEN search_cache[key]
        ELSE FinishSearch(trees, elements_flat, search_cache, pid, q, cs).matching

\* the (pid, normalized query, case-sensitivity) triples in use
SearchTriples ==
    {<<pid, NormalizeSearchQuery(query, cs), cs>> : pid \in Pids, query \in ReadQueries, cs \in BOOLEAN}

\* C17: with case_sensitive=false the result depends only on the trimmed,
\* lower-cased query and matches targets whatever their case; with
\* case_sensitive=true an element matches only if the query occurs in its
\* searchable string in exactly the same case; a result memoized under one
\* case-sensitivity or pid is never returned for another.
C17_CaseHandlingAndMemoKeys ==
    /\ (ev.kind = "search" /\ Fresh(ev.pid)) =>
          \A q1 \in ReadQueries, q2 \in ReadQueries :
              Lower(Strip(q1)) = Lower(Strip(q2)) =>
                  SearchAnswer(ev.pid, q1, FALSE) = SearchAnswer(ev.pid, q2, FALSE)
    /\ (ev.kind = "search" /\ ev.build \in Returned /\ ev.pid \in DOMAIN trees) =>
          LET flat == CollectElements(trees[ev.pid].root, NoNode.path)
              text(i) == SearchableString(flat[i], NonBlank)
              in(i) == \E j \in 1..Len(ev.val.elements) : ev.val.elements[j] = flat[i]
          IN  \A i \in 1..Len(flat) :
                  in(i) <=> IF ev.val.cs THEN Contains(text(i), ev.val.q)
                            ELSE Contains(Lower(text(i)), Lower(ev.val.q))
    /\ (ev.kind = "search" /\ ev.build = "memo") =>
          ev.val.elements = search_cache[GetCachedSearchKey(ev.pid, ev.val.q, ev.val.cs)]
    /\ ev.kind = "search" =>
          \A a \in SearchTriples :
              GetCachedSearchKey(a[1], a[2], a[3]) = GetCachedSearchKey(ev.pid, ev.val.q, ev.val.cs)
                  => a = <<ev.pid, ev.val.q, ev.val.cs>>

\* C17 witness: a case-insensitive search for "ok" just returned the button
\* titled "ok" and the text described "Accept (OK)"
C17_Witness ==
    /\ ev.kind = "search" /\ ev.build \in Returned /\ ~ev.val.cs
    /\ ev.val.q = <<"o", "k">>
    /\ ev.val.total_count = 2
    /\ ev.val.elements[1].attributes = TitleOk
    /\ ev.val.elements[2].attributes = DescAccept

\* a display element that cannot be acted on
IsDisplayOnly(node) == node.role \in EXCLUDE_ROLES /\ ~node.is_interactive

\* the node has an interactive descendant at most `levels` levels below it
RECURSIVE InteractiveWithin(_, _)
InteractiveWithin(node, levels) ==
    /\ levels > 0
    /\ \E i \in 1..Len(node.children) :
          node.children[i].is_interactive \/ InteractiveWithin(node.children[i], levels - 1)

\* the same, reached without passing through a display-only element
RECURSIVE InteractiveWithinOutsideDisplay(_, _)
InteractiveWithinOutsideDisplay(node, levels) ==
    /\ levels > 0
    /\ \E i \in 1..Len(node.children) :
          /\ ~IsDisplayOnly(node.children[i])
          /\ \/ node.children[i].is_interactive
             \/ InteractiveWithinOutsideDisplay(node.children[i], levels - 1)

RetainedAsClaimed(child) ==
    child.is_interactive \/ child.role \in CONTAINER_ROLES \/ InteractiveWithin(child, LookaheadDepth)

RetainedOutsideDisplay(child) ==
    /\ ~IsDisplayOnly(child)
    /\ \/ child.is_interactive
       \/ child.role \in CONTAINER_ROLES
       \/ InteractiveWithinOutsideDisplay(child, LookaheadDepth)

\* the nodes of a JSON view
RECURSIVE OutputNodes(_)
OutputNodes(out) ==
    {out} \cup UNION {OutputNodes(out.children[i]) : i \in 1..Len(out.children)}

PathsOf(nodes) == [i \in 1..Len(nodes) |-> nodes[i].path]

\* in the view, every expanded node shows exactly its snapshot children that
\* satisfy retained (at most 50 of them exist), and every other node shows none
ViewKeeps(out, pid, retained(_)) ==
    \A o \in OutputNodes(out) :
        LET node == FirstWithPath(pid, o.element.path)
        IN  /\ Len(node.children) <= MaxFilteredChildren
            /\ [i \in 1..Len(o.children) |-> o.children[i].element.path]
                  = IF o.is_expanded THEN PathsOf(SelectSeq(node.children, retained)) ELSE <<>>

\* C18 (as claimed): in the interactive filter a child of an expanded node is
\* retained if and only if it is directly interactive, or has a structural
\* container role, or has an interactive descendant within 2 levels; otherwise
\* it is pruned with its subtree.
C18_ChildRetainedIffInteractiveContainerOrLookahead ==
    (ev.kind = "json" /\ ev.build = "tree" /\ ev.val.interactive_only) =>
        ViewKeeps(ev.val.out, ev.pid, RetainedAsClaimed)

\* C18 (amended): a child of an expanded node is retained if and only if it
\* is not a non-interactive display element (AXRow, AXCell, AXTable, AXColumn,
\* AXColumnHeader) and it is directly interactive, or has a structural
\* container role, or has an interactive descendant within 2 levels that is
\* reached without passing through a non-interactive display element;
\* otherwise it is pruned with its subtree.
C18_ChildRetainedUnlessDisplayOnly ==
    (ev.kind = "json" /\ ev.build = "tree" /\ ev.val.interactive_only) =>
        ViewKeeps(ev.val.out, ev.pid, RetainedOutsideDisplay)

\* C18 witness: the view of the dialog shows the box with its three buttons
\* and without the decorative text, the image with a button two levels below
\* it and the cell, and leaves out the table, the list and the deep image
C18_Witness ==
    /\ ev.kind = "json" /\ ev.build = "tree" /\ ev.val.interactive_only
    /\ ev.val.max_depth = 2
    /\ trees[ev.pid].root = FilterLayout
    /\ [i \in 1..Len(ev.val.out.children) |-> ev.val.out.children[i].element.path]
          = <<"/a/box", "/a/near", "/a/cell">>
    /\ [i \in 1..Len(ev.val.out.children[1].children) |->
            ev.val.out.children[1].children[i].element.path]
          = <<"/a/box/b1", "/a/box/b2", "/a/box/b3">>

DisplayOnlyInfo(info) == info.role \in EXCLUDE_ROLES /\ ~info.is_interactive

\* no node of the view returned by get_tree_json with interactive_only is a
\* non-interactive display element
TreeViewHasNoDisplayOnlyNode ==
    (ev.kind = "json" /\ ev.build = "tree" /\ ev.val.interactive_only) =>
        \A o \in OutputNodes(ev.val.out) : ~DisplayOnlyInfo(o.element)

\* no node below the expanded element in the view returned by expand_element
\* is a non-interactive display element
ExpandViewHasNoDisplayOnlyNode ==
    (ev.kind = "expand" /\ ev.build = "node") =>
        \A i \in 1..Len(ev.val.children) :
            \A o \in OutputNodes(ev.val.children[i]) : ~DisplayOnlyInfo(o.element)

\* C20: no node in the interactive-only tree output (of get_tree_json and of
\* expand_element) has a display role (AXRow, AXCell, AXTable, AXColumn,
\* AXColumnHeader) while being non-interactive.
C20_NoDisplayOnlyNodeInInteractiveOutput ==
    TreeViewHasNoDisplayOnlyNode /\ ExpandViewHasNoDisplayOnlyNode

\* the nodes of a snapshot at most `levels` levels below node, node included
RECURSIVE NodesWithin(_, _)
NodesWithin(node, levels) ==
    {node} \cup (IF levels = 0 THEN {}
                 ELSE UNION {NodesWithin(node.children[i], levels - 1) : i \in 1..Len(node.children)})

\* C21: interactive-only filtering preserves interactive elements: every
\* interactive node of the snapshot within max_depth levels of the root
\* appears in the interactive-only output of get_tree_json.
C21_InteractiveNodesPreserved ==
    (ev.kind = "json" /\ ev.build = "tree" /\ ev.val.interactive_only) =>
        \A node \in NodesWithin(trees[ev.pid].root, ev.val.max_depth) :
            node.is_interactive =>
                \E o \in OutputNodes(ev.val.out) : o.element.path = node.path

First(seq, n) == [i \in 1..(IF Len(seq) < n THEN Len(seq) ELSE n) |-> seq[i]]

\* the view `out` of `node`, found `depth` levels below the converted element:
\* it is expanded exactly above max_depth; expanded, it shows the first 50
\* retained children of node in snapshot order (all-elements mode: the first
\* 20 children), each as such a view one level deeper; otherwise it shows none
RECURSIVE CappedView(_, _, _, _, _)
CappedView(out, node, depth, max_depth, interactive_only) ==
    LET shown == IF depth >= max_depth THEN <<>>
                 ELSE IF interactive_only
                      THEN First(SelectSeq(node.children, RetainedOutsideDisplay), MaxFilteredChildren)
                      ELSE First(node.children, MaxAllChildren)
    IN  /\ out.element.path = node.path
        /\ out.is_expanded = (depth < max_depth)
        /\ Len(out.children) <= MaxFilteredChildren
        /\ Len(out.children) = Len(shown)
        /\ \A i \in 1..Len(shown) :
              CappedView(out.children[i], shown[i], depth + 1, max_depth, interactive_only)

\* how many levels a view has below its root
RECURSIVE ViewDepth(_)
ViewDepth(out) ==
    IF out.children = <<>> THEN 0
    ELSE 1 + CHOOSE d \in {ViewDepth(out.children[i]) : i \in 1..Len(out.children)} :
                 \A i \in 1..Len(out.children) : ViewDepth(out.children[i]) <= d

\* the element a view event was computed from
ViewSource == IF ev.kind = "json" THEN trees[ev.pid].root ELSE ev.val.element

\* C22: every node of the converter's output has at most 50 children, the
\* first 50 retained children in snapshot order (all-elements mode: the first
\* 20 children); a node at depth max_depth is emitted with is_expanded false
\* and no children, so the output never exceeds depth max_depth.
C22_OutputCappedInWidthAndDepth ==
    (ev.kind \in {"json", "convert"} /\ ev.build = "tree") =>
        /\ CappedView(ev.val.out, ViewSource, 0, ev.val.max_depth, ev.val.interactive_only)
        /\ ViewDepth(ev.val.out) <= ev.val.max_depth

\* C22 witness: of the wide element's retained buttons the interactive view
\* shows the first 50, ending with the element's 51st child
C22_Witness ==
    /\ ev.kind = "convert" /\ ev.val.interactive_only /\ ev.val.max_depth = 2
    /\ ev.val.element = WideLayout
    /\ Len(SelectSeq(WideLayout.children, RetainedOutsideDisplay)) > MaxFilteredChildren
    /\ Len(ev.val.out.children) = MaxFilteredChildren
    /\ ev.val.out.children[MaxFilteredChildren].element.path
          = WideLayout.children[MaxFilteredChildren + 1].path

\* C23: clear_all_caches completes without error for any cache contents,
\* including when builders exist, and afterwards no builder, snapshot,
\* timestamp, flattened index or search-cache entry remains for any pid.
C23_ClearAllCachesEmptiesEverything ==
    ev.kind = "clear" =>
        /\ ev.build = "ok"
        /\ builders = <<>> /\ trees = <<>> /\ last_updated = <<>>
        /\ elements_flat = <<>> /\ search_cache = <<>>

\* C24: an invalidate_cache(pid) or cleanup(pid) issued while a build_tree(pid)
\* call is awaiting the builder is not undone by that build: as long as no
\* new build has been started for pid since the invalidate or cleanup
\* returned, the cache holds no snapshot and no timestamp for pid.
C24_InvalidateNotUndoneByInFlightBuild ==
    \A pid \in invalidated : pid \notin DOMAIN trees /\ pid \notin DOMAIN last_updated

\* C25: a failed build is reported as a value and changes nothing: when the
\* builder returns no tree or raises, build_tree returns None, and neither
\* its step up to the await nor its step after it changes the stored
\* snapshot, timestamp, flattened index or search-cache entries.
C25_FailedBuildChangesNothing ==
    [][(ev'.kind = "build" /\ ev'.build \in {"invoke", "none", "raise"}) =>
          /\ trees' = trees /\ last_updated' = last_updated
          /\ elements_flat' = elements_flat /\ search_cache' = search_cache
          /\ ev'.build \in {"none", "raise"} => ev'.val = NoTree]_vars

\* C25 witness: a forced build has failed by a raise while the pid had a
\* snapshot, a timestamp, a flattened index and memoized searches
C25_Witness ==
    /\ ev.kind = "build" /\ ev.build = "raise" /\ ev.force
    /\ ev.pid \in DOMAIN trees /\ ev.pid \in DOMAIN last_updated
    /\ ev.pid \in DOMAIN elements_flat
    /\ search_cache # <<>>

\* C26: every successful action the controller dispatches on pid (click and
\* type by index, and the click-loop recovery) is followed by
\* invalidate_cache(pid) before the controller's next tree read: when the
\* handler returns, the pid has no snapshot, timestamp or flattened index; a
\* failed action leaves the snapshot, the timestamp and the memoized searches
\* unchanged, and the flattened index at most memoized by the handler's read.
C26_ActionFollowedByInvalidate ==
    [][ev'.kind \in {"resolve", "recover"} /\ ev'.build \in {"acted", "none"} =>
          IF ev'.build = "acted"
          THEN /\ ev'.pid \in invalidated'
               /\ ev'.pid \notin DOMAIN trees'
               /\ ev'.pid \notin DOMAIN last_updated'
               /\ ev'.pid \notin DOMAIN elements_flat'
          ELSE /\ trees' = trees /\ last_updated' = last_updated
               /\ search_cache' = search_cache /\ invalidated' = invalidated
               /\ elements_flat' = FlattenMemo(trees, elements_flat, ev'.pid)]_vars

\* C27: the age of a snapshot is measured from the moment it is swapped into
\* the cache: a non-forced build_tree(pid) issued right after a build of pid
\* completed (no time has passed) returns that build's snapshot without
\* rebuilding, however long the build took.
C27_AgeMeasuredFromSwap ==
    [][(/\ ev.kind = "build" /\ ev.build = "tree"
        /\ ev'.kind = "build" /\ ev'.pid = ev.pid /\ ~ev'.force
        /\ ev'.build \in {"hit", "invoke"})
          => (ev'.build = "hit" /\ ev'.val = ev.val)]_vars

\* C28: while a pid keeps a snapshot its stored timestamp never decreases:
\* of two overlapping build_tree(pid) calls, the one that completes last
\* never overwrites a newer snapshot with an older snapshot and timestamp.
C28_TimestampNeverDecreases ==
    [][\A pid \in DOMAIN last_updated \cap DOMAIN last_updated' :
          last_updated'[pid] >= last_updated[pid]]_vars

\* C29: a single build_tree or expand_element call, run with no other call on
\* the pid in flight, restores the builder's max_depth and max_children to
\* their pre-call values on every exit path (success, no tree, raise): when
\* the call returns, the builder it used has the values the call found, which
\* are the values get_builder gave it.
C29_SingleCallRestoresSettings ==
    [][\A p \in SeqTasks :
          (tasks[p].pc # "idle" /\ tasks'[p].pc = "idle" /\ tasks[p].pid \in DOMAIN builders'
              /\ builders'[tasks[p].pid].obj = tasks[p].bld) =>
             LET b == builders'[tasks[p].pid]
             IN  /\ b.max_depth = tasks[p].orig_depth
                 /\ b.max_children = tasks[p].orig_children
                 /\ b.max_depth = DefaultMaxDepth
                 /\ b.max_children = DefaultMaxChildren]_vars

\* C29 witness: a lazy build has ended by a raise and the builder it
\* configured is back at its settings
C29_Witness ==
    /\ ev.kind = "build" /\ ev.build = "raise"
    /\ \A p \in Tasks : tasks[p].pc = "idle"
    /\ ev.pid \in DOMAIN builders
    /\ builders[ev.pid].max_depth = DefaultMaxDepth
    /\ builders[ev.pid].max_children = DefaultMaxChildren

\* the builder objects the builders dictionary holds (a builder's settings
\* are fields of the object, not of the dictionary)
BuilderObjects(bs) == [pid \in DOMAIN bs |-> bs[pid].obj]

\* the shared tables a step assigns to
TablesChanged ==
    {name \in {"trees", "last_updated", "elements_flat", "search_cache", "builders"} :
        \/ name = "trees" /\ trees' # trees
        \/ name = "last_updated" /\ last_updated' # last_updated
        \/ name = "elements_flat" /\ elements_flat' # elements_flat
        \/ name = "search_cache" /\ search_cache' # search_cache
        \/ name = "builders" /\ BuilderObjects(builders') # BuilderObjects(builders)}

\* C30: every mutation of the cache's shared tables (trees, last_updated,
\* elements_flat, search_cache, builders) is performed while holding the
\* cache's lock: a step changes only tables that its handler assigns inside
\* `with cache.lock`.
C30_TablesMutatedUnderLock ==
    [][TablesChanged \subseteq TablesLockedBy(ev'.kind)]_vars

\* the limits the claim gives a build_tree call by its arguments
LimitsOfCall(lazy_mode, max_depth) ==
    IF max_depth # NoDepth THEN [max_depth |-> max_depth, max_children |-> 50]
    ELSE IF lazy_mode THEN [max_depth |-> 3, max_children |-> 25]
    ELSE [max_depth |-> 4, max_children |-> 50]

\* C31: the limits the builder runs with are determined by the call: lazy
\* mode without an explicit max_depth builds with 3 and 25; an explicit
\* max_depth builds with that depth and 50 children whether or not lazy_mode
\* is set; full mode without an explicit max_depth builds with 4 and 50.
C31_LimitsDeterminedByCall ==
    (ev.kind = "build" /\ ev.build = "invoke") =>
        LET b == builders[ev.pid]
            limits == LimitsOfCall(ev.val.lazy_mode, ev.val.max_depth)
        IN  b.max_depth = limits.max_depth /\ b.max_children = limits.max_children

\* C32 (as claimed): should_load_children returns false for every element
\* whose role is AXRow, AXCell, AXTable or AXStaticText, at every depth and
\* for every max_depth, whatever its other properties; for an element with a
\* structural container role it returns true only when
\* current_depth < min(max_depth, 3).
C32_DisplayNeverExpandedContainersCapped ==
    ev.kind = "load" =>
        LET c == ev.val
        IN  /\ c.element.role \in {"AXRow", "AXCell", "AXTable", "AXStaticText"} => ~c.result
            /\ c.element.role \in {"AXWindow", "AXGroup", "AXScrollArea", "AXSplitGroup",
                                   "AXTabGroup", "AXToolbar"} =>
                  (c.result => (c.current_depth < c.max_depth /\ c.current_depth < 3))

\* C32 (amended): for an element that is not interactive, should_load_children
\* returns false when its role is AXRow, AXCell, AXTable or AXStaticText, and
\* returns true exactly when current_depth < min(max_depth, 3) when its role
\* is a structural container role; for an interactive element of any role it
\* returns true exactly when current_depth < max_depth.
C32_NonInteractiveDisplayNeverExpanded ==
    ev.kind = "load" =>
        LET c == ev.val
        IN  IF c.element.is_interactive
            THEN c.result = (c.current_depth < c.max_depth)
            ELSE /\ c.element.role \in {"AXRow", "AXCell", "AXTable", "AXStaticText"} => ~c.result
                 /\ c.element.role \in {"AXWindow", "AXGroup", "AXScrollArea", "AXSplitGroup",
                                        "AXTabGroup", "AXToolbar"} =>
                       (c.result = (c.current_depth < c.max_depth /\ c.current_depth < 3))

\* C32 witness: a row that can be pressed is expanded, with budget remaining
C32_Witness ==
    /\ ev.kind = "load"
    /\ ev.val.element.role = "AXRow" /\ ev.val.element.is_interactive
    /\ ev.val.current_depth = 3 /\ ev.val.max_depth = 4
    /\ ev.val.result

\* C33: the _element_cache compatibility view is built from the last built
\* tree: read right after a build stored the snapshot of a pid, it maps
\* highlight indices to nodes of that pid's snapshot, also when snapshots of
\* several pids are cached.
C33_ElementCacheUsesLastBuiltTree ==
    [][(ev.kind = "build" /\ ev.build = "tree" /\ ev'.kind = "resolve" /\ ev'.build = "cache") =>
          (ev'.pid = ev.pid /\ ev'.val.snap = trees[ev.pid].id)]_vars

\* the pid has an entry in the search cache
HasSearchEntry(pid) ==
    \E k \in DOMAIN search_cache :
        Len(k) > Len(Digits(pid)) /\ SubSeq(k, 1, Len(Digits(pid)) + 1) = Digits(pid) \o <<":">>

\* C34: search_elements memoizes results only for pids that have a snapshot:
\* in every reachable state each search-cache entry's pid has a stored
\* snapshot.
C34_SearchEntriesOnlyForStoredSnapshots ==
    \A pid \in Pids : HasSearchEntry(pid) => pid \in DOMAIN trees

\* C35: in every reachable state in which no cache operation holds the lock,
\* the set of pids with a stored snapshot equals the set of pids with a
\* stored timestamp.
C35_SnapshotsAndTimestampsAgree ==
    lock = {} => DOMAIN trees = DOMAIN last_updated

\* C35 witness: of two stored snapshots one has just been invalidated, and
\* the other pid keeps its snapshot and its timestamp
C35_Witness ==
    /\ ev.kind = "invalidate" /\ lock = {}
    /\ DOMAIN trees = Pids \ {ev.pid}
    /\ DOMAIN last_updated = Pids \ {ev.pid}

IsScalar(value) == value.t \in {"none", "str", "int", "bool"}

\* no object of another type is left anywhere in the value
RECURSIVE JsonValue(_)
JsonValue(value) ==
    CASE value.t \in {"list", "tuple"} -> \A i \in 1..Len(value.items) : JsonValue(value.items[i])
      [] value.t = "dict" -> \A k \in DOMAIN value.items : JsonValue(value.items[k])
      [] value.t = "obj" -> FALSE
      [] OTHER -> TRUE

\* C36 (as claimed): _sanitize_attributes returns a map with the same keys in
\* which scalar values are unchanged and every non-scalar or non-serializable
\* value is replaced by its string form; sanitizing an already sanitized map
\* changes nothing.
C36_NonScalarsBecomeStrings ==
    ev.kind = "sanitize" =>
        \A out \in {ev.val.out, ev.val.server_out} :
            /\ DOMAIN out = DOMAIN ev.val.attributes
            /\ \A key \in DOMAIN out :
                  IF IsScalar(ev.val.attributes[key]) THEN out[key] = ev.val.attributes[key]
                  ELSE out[key].t = "str"

\* C36 (amended): _sanitize_attributes returns a map with the same keys in
\* which every JSON-serializable value (a scalar, or a list, tuple or map made
\* of such values) is unchanged and every other value is replaced: an object
\* by its string form; a list, tuple or map, in optimized_tree.py by the list
\* or map of its items sanitized in the same way, in server.py by its string
\* form. The result is JSON-serializable and sanitizing it again changes
\* nothing.
C36_SerializableKeptOthersReplaced ==
    ev.kind = "sanitize" =>
        LET attrs == ev.val.attributes
        IN  /\ \A out \in {ev.val.out, ev.val.server_out} :
                  /\ DOMAIN out = DOMAIN attrs
                  /\ \A key \in DOMAIN out :
                        /\ JsonValue(attrs[key]) => out[key] = attrs[key]
                        /\ attrs[key].t = "obj" => out[key] = StrValue("<" \o attrs[key].name \o ">")
                        /\ JsonValue(out[key])
            /\ \A key \in DOMAIN attrs :
                  ~JsonValue(attrs[key]) /\ attrs[key].t # "obj" =>
                      /\ ev.val.server_out[key].t = "str"
                      /\ ev.val.out[key].t = (IF attrs[key].t = "dict" THEN "dict" ELSE "list")
                      /\ attrs[key].t = "dict" => DOMAIN ev.val.out[key].items = DOMAIN attrs[key].items
                      /\ attrs[key].t # "dict" => Len(ev.val.out[key].items) = Len(attrs[key].items)
            /\ ev.val.again = ev.val.out
            /\ ev.val.server_again = ev.val.server_out

\* C36 witness: a serializable list was kept as a list, and a list holding an
\* object was turned into a list holding the object's string form
C36_Witness ==
    /\ ev.kind = "sanitize"
    /\ ev.val.attributes.title = ListValue(<<IntValue(1), StrValue("a")>>)
    /\ ev.val.out.title = ev.val.attributes.title
    /\ "value" \in DOMAIN ev.val.attributes
    /\ ev.val.attributes.value = ListValue(<<IntValue(1), ObjectValue("AXValueRef")>>)
    /\ ev.val.out.value = ListValue(<<IntValue(1), StrValue("<AXValueRef>")>>)

\* C37: the element lists that _handle_typing_loop, _try_axconfirm_on_text_field
\* and _try_click_ok_buttons obtain from get_flattened_elements after their
\* invalidate_cache call are each the flattening of a newly built snapshot of
\* the process.
C37_RecoveryReadsFreshTree ==
    ev.kind \in {"typing_loop", "click_ok"} =>
        \A i \in 1..Len(ev.val) : IsFlattening(ev.val[i], Hierarchies[ui[ev.pid]])

\* the agent's three most recent successful actions each typed the folder name
TypedFolderNameThrice ==
    /\ Len(performed) = LoopLength
    /\ \A i \in 1..Len(performed) : performed[i].action = "type" /\ performed[i].text = FolderName

\* C38: when the agent's three most recent successful actions each typed the
\* folder name, the next step that reaches the language model has run
\* _handle_typing_loop first; action_history never holds more than 5 entries.
C38_TypingLoopHandledBeforeLLM ==
    [][/\ (TypedFolderNameThrice /\ ev'.kind = "checks" /\ ev'.build = "llm") => ev'.val.typing_loop
       /\ state' # NoState => Len(state'.action_history) <= MaxHistory]_vars

\* C39: the stage flags respect the order new_folder_clicked, then
\* folder_name_entered, then ok_clicked; no flag is ever reset to false; an
\* action that fails changes no field of FolderCreationState.
C39_StagesInOrderAndMonotone ==
    [][state' # NoState =>
          /\ state'.ok_clicked => state'.folder_name_entered
          /\ state'.folder_name_entered => state'.new_folder_clicked
          /\ state.new_folder_clicked => state'.new_folder_clicked
          /\ state.folder_name_entered => state'.folder_name_entered
          /\ state.ok_clicked => state'.ok_clicked
          /\ (ev'.kind \in {"resolve", "recover"} /\ ev'.build = "none") => state' = state]_vars

====
